---------------------------- MODULE Spec2Model ----------------------------
(***************************************************************************)
(* A model of Scribe's commit engine: digests and their hex codec, the     *)
(* commit envelope (canonical JSON, finalize, verify), the Merkle root     *)
(* over change digests, the SQLite commit store (commits, changes, refs),  *)
(* the repository facade and the two writers that drive it (the commit     *)
(* command and the watch callback), the verify command, and the watch     *)
(* daemon's monitor loop in trigger mode, from the installation of its     *)
(* signal handlers on; and the library's Merkle tree and proofs, refs      *)
(* table, object store, repository discovery, PostgreSQL connection and    *)
(* logical-replication poll, each driven by a client of its own.           *)
(*                                                                         *)
(* Modelling conventions                                                   *)
(*  - SHA-256 is an ideal hash: injective on its input and never the zero  *)
(*    digest.  A digest is <<"sha256", input>>, the zero digest <<"zero">>.*)
(*  - A byte string handed to the hash is tagged by what it holds: a C     *)
(*    string <<"str", s>>, a JSON text <<"json", keys...>>, or the Merkle  *)
(*    preimage <<"0x01", left, right>>.                                    *)
(*  - A TEXT column holding a digest is a record [form, digest]: the hex   *)
(*    written by scribe_hash_to_hex has form "lower"; "upper", "malformed",*)
(*    "empty" and "null" are the other contents such a column can hold.    *)
(*  - A null char* is the value NULL, different from every string used.    *)
(*  - Memory allocation succeeds.  SQLite statements can fail             *)
(*    (FaultChoices), and every SQL statement is its own transaction,      *)
(*    because the code never issues BEGIN: the store's state between two   *)
(*    statements of one command is a committed state that other processes  *)
(*    and a restart see.                                                   *)
(*  - The monitor loop is one process; a stop request (the signal handler) *)
(*    and upstream transactions interleave with its steps.  The two        *)
(*    statements of a poll are two steps.  Calls to PostgreSQL can fail    *)
(*    any number of times.                                                 *)
(*  - A missing digest or proof is NullHash or NullProof, a value of the   *)
(*    same shape as a present one.                                         *)
(*  - A file is a name with a content; a path is the sequence of its       *)
(*    components.  A text formatted into a fixed buffer is cut to the      *)
(*    buffer's size.                                                       *)
(***************************************************************************)
EXTENDS Integers, Sequences, FiniteSets, TLC

(***************************************************************************)
(* Bounds of the model.                                                    *)
(***************************************************************************)
MaxChanges == 2
MaxEnvOps == 5
MaxRuns == 2
MaxFaults == 1
MaxTime == 2
MaxAudit == 2
(* The LIMIT 100 of the poll's SELECT and UPDATE, scaled down. *)
PollLimit == 2
MaxLeaves == 5
MaxDepth == 2

NULL == "<NULL>"

Range(seq) == {seq[i] : i \in 1..Len(seq)}

(***************************************************************************)
(* Digests (core/hash.c).                                                  *)
(***************************************************************************)
SCRIBE_ZERO_HASH == <<"zero">>

sha256(bytes) == <<"sha256", bytes>>

Str(s) == <<"str", s>>

scribe_hash_is_zero(hash) == hash = SCRIBE_ZERO_HASH

scribe_hash_equal(a, b) == a = b

scribe_hash_bytes(data) == sha256(data)

scribe_hash_combine(left, right) == sha256(<<"0x01", left, right>>)

(* The lowercase hex text of a digest. *)
scribe_hash_to_hex(hash) == [form |-> "lower", digest |-> hash]

NullText == [form |-> "null", digest |-> SCRIBE_ZERO_HASH]
EmptyText == [form |-> "empty", digest |-> SCRIBE_ZERO_HASH]
MalformedText == [form |-> "malformed", digest |-> SCRIBE_ZERO_HASH]
UpperHex(hash) == [form |-> "upper", digest |-> hash]

(* strlen(text) == SCRIBE_HASH_HEX_SIZE - 1, for a non-null text: the      *)
(* malformed text stands for a text of another length.                     *)
HasHexLength(text) == text.form \in {"lower", "upper"}

(* scribe_hash_from_hex(hex, out): the error and the value left in out.    *)
(* A null, short or long text is rejected before out is written; isxdigit  *)
(* takes both cases.                                                       *)
scribe_hash_from_hex(hex, out) ==
    IF hex.form \in {"lower", "upper"}
    THEN [err |-> "OK", hash |-> hex.digest]
    ELSE [err |-> "INVALID_ARG", hash |-> out]

(***************************************************************************)
(* Merkle root (core/merkle.c): the leaves hold pre-computed digests       *)
(* (scribe_merkle_add_hash stores the digest as the leaf's hash).          *)
(***************************************************************************)
MerkleNextLevelPromotes(level) ==
    [i \in 1..((Len(level) + 1) \div 2) |->
        IF 2 * i > Len(level) THEN level[2 * i - 1]
        ELSE scribe_hash_combine(level[2 * i - 1], level[2 * i])]
MerkleNextLevel(level) ==
    [i \in 1..((Len(level) + 1) \div 2) |->
        LET left_idx == 2 * i - 1
            right_idx == IF 2 * i > Len(level) THEN left_idx ELSE 2 * i
        IN scribe_hash_combine(level[left_idx], level[right_idx])]

RECURSIVE MerkleReduce(_)
MerkleReduce(level) ==
    IF Len(level) > 1 THEN MerkleReduce(MerkleNextLevel(level)) ELSE level[1]

(* scribe_merkle_build followed by scribe_merkle_root. *)
scribe_merkle_build(leaves) ==
    IF Len(leaves) = 0 THEN SCRIBE_ZERO_HASH
    ELSE IF Len(leaves) = 1 THEN leaves[1]
    ELSE MerkleReduce(leaves)

(* scribe_hash_leaf: SHA256(0x00 || data). *)
scribe_hash_leaf(data) == sha256(<<"0x00", data>>)

(* The depth scribe_merkle_proof_create computes for n leaves. *)
RECURSIVE ProofDepth(_)
ProofDepth(n) == IF n > 1 THEN 1 + ProofDepth((n + 1) \div 2) ELSE 0

(* scribe_merkle_proof_create for a built tree and leaf_index < leaf_count: *)
(* the proof has the tree's depth, and hashes and positions are as calloc   *)
(* left them.                                                               *)
scribe_merkle_proof_create(leaves, leaf_index) ==
    LET depth == ProofDepth(Len(leaves))
    IN [depth |-> depth,
        hashes |-> [i \in 1..depth |-> SCRIBE_ZERO_HASH],
        positions |-> [i \in 1..depth |-> 0]]

(* The loop of scribe_merkle_proof_verify: current after the first levels  *)
(* of the proof.                                                           *)
RECURSIVE ProofFoldIgnoresPosition(_, _, _)
ProofFoldIgnoresPosition(proof, current, levels) ==
    IF levels = 0 THEN current
    ELSE scribe_hash_combine(ProofFoldIgnoresPosition(proof, current, levels - 1),
                             proof.hashes[levels])
RECURSIVE ProofFold(_, _, _)
ProofFold(proof, current, levels) ==
    IF levels = 0 THEN current
    ELSE LET below == ProofFold(proof, current, levels - 1)
         IN IF proof.positions[levels] = 0
            THEN scribe_hash_combine(below, proof.hashes[levels])
            ELSE scribe_hash_combine(proof.hashes[levels], below)

(* A null scribe_hash_t pointer and a null proof pointer. *)
NullHash == <<"null">>
NullProof == [depth |-> 0 - 1, hashes |-> <<>>, positions |-> <<>>]

scribe_merkle_proof_verify(proof, leaf_hash, root_hash) ==
    IF proof = NullProof \/ leaf_hash = NullHash \/ root_hash = NullHash THEN FALSE
    ELSE scribe_hash_equal(ProofFold(proof, leaf_hash, proof.depth), root_hash)

(***************************************************************************)
(* The envelope (core/envelope.c).                                         *)
(***************************************************************************)
Opt(present, elem) == IF present THEN <<elem>> ELSE <<>>

scribe_envelope_new(time) ==
    [commit_id |-> SCRIBE_ZERO_HASH,
     parent_id |-> SCRIBE_ZERO_HASH,
     tree_hash |-> SCRIBE_ZERO_HASH,
     author |-> [id |-> NULL, role |-> NULL, email |-> NULL],
     process |-> [name |-> NULL, version |-> NULL, params |-> NULL, source |-> NULL],
     timestamp |-> time,
     message |-> NULL,
     changes |-> <<>>]

scribe_envelope_set_author(env, id, role) ==
    [env EXCEPT !.author.id = id, !.author.role = role]

scribe_envelope_set_author_email(env, email) ==
    [env EXCEPT !.author.email = email]

scribe_envelope_set_process(env, name, version, params) ==
    [env EXCEPT !.process.name = name, !.process.version = version,
                !.process.params = params]

scribe_envelope_set_process_source(env, source) ==
    [env EXCEPT !.process.source = source]

(* A null parent pointer is passed as the zero digest. *)
scribe_envelope_set_parent(env, parent) == [env EXCEPT !.parent_id = parent]

scribe_envelope_set_message(env, message) == [env EXCEPT !.message = message]

scribe_envelope_set_tree_hash(env, tree_hash) == [env EXCEPT !.tree_hash = tree_hash]

(* A null before_hash or after_hash pointer leaves the zeroed field. *)
scribe_envelope_add_change(env, table_name, operation, primary_key, before_hash, after_hash) ==
    [env EXCEPT !.changes = Append(@,
        [table_name |-> table_name, operation |-> operation,
         primary_key |-> primary_key,
         before_hash |-> before_hash, after_hash |-> after_hash])]

ChangeJson(ch) ==
    Opt(ch.table_name # NULL, <<"table", ch.table_name>>)
    \o Opt(ch.operation # NULL, <<"operation", ch.operation>>)
    \o Opt(ch.primary_key # NULL, <<"pk", ch.primary_key>>)
    \o Opt(~scribe_hash_is_zero(ch.before_hash),
           <<"before_hash", scribe_hash_to_hex(ch.before_hash)>>)
    \o Opt(~scribe_hash_is_zero(ch.after_hash),
           <<"after_hash", scribe_hash_to_hex(ch.after_hash)>>)

(* The JSON text: the keys in the order yyjson writes them. *)
scribe_envelope_to_json(env) ==
    <<"json">>
    \o Opt(~scribe_hash_is_zero(env.commit_id),
           <<"commit_id", scribe_hash_to_hex(env.commit_id)>>)
    \o Opt(~scribe_hash_is_zero(env.parent_id),
           <<"parent_id", scribe_hash_to_hex(env.parent_id)>>)
    \o Opt(~scribe_hash_is_zero(env.tree_hash),
           <<"tree_hash", scribe_hash_to_hex(env.tree_hash)>>)
    \o << <<"author",
            Opt(env.author.id # NULL, <<"id", env.author.id>>)
            \o Opt(env.author.role # NULL, <<"role", env.author.role>>)
            \o Opt(env.author.email # NULL, <<"email", env.author.email>>)>> >>
    \o << <<"process",
            Opt(env.process.name # NULL, <<"name", env.process.name>>)
            \o Opt(env.process.version # NULL, <<"version", env.process.version>>)
            \o Opt(env.process.params # NULL, <<"params", env.process.params>>)
            \o Opt(env.process.source # NULL, <<"source", env.process.source>>)>> >>
    \o << <<"timestamp", env.timestamp>> >>
    \o Opt(env.message # NULL, <<"message", env.message>>)
    \o Opt(Len(env.changes) > 0,
           <<"changes", [i \in 1..Len(env.changes) |-> ChangeJson(env.changes[i])]>>)

(* The Merkle leaves finalize adds: per change, before then after, each    *)
(* only when it is not zero.                                               *)
RECURSIVE TreeLeaves(_)
TreeLeaves(changes) ==
    IF changes = <<>> THEN <<>>
    ELSE Opt(~scribe_hash_is_zero(Head(changes).before_hash), Head(changes).before_hash)
         \o Opt(~scribe_hash_is_zero(Head(changes).after_hash), Head(changes).after_hash)
         \o TreeLeaves(Tail(changes))

(* The commit id finalize stores: the hash of the JSON text serialized     *)
(* after commit_id was zeroed.                                             *)
FinalizeCommitIdKeepsOld(env) == scribe_hash_bytes(scribe_envelope_to_json(env))
FinalizeCommitId(env) ==
    scribe_hash_bytes(scribe_envelope_to_json([env EXCEPT !.commit_id = SCRIBE_ZERO_HASH]))

(* scribe_envelope_finalize: the envelope it leaves.  Allocation succeeds,  *)
(* so both serializations give a text and it returns OK.                   *)
scribe_envelope_finalize(env) ==
    LET with_tree ==
            IF scribe_hash_is_zero(env.tree_hash) /\ Len(env.changes) > 0
            THEN [env EXCEPT !.tree_hash = scribe_merkle_build(TreeLeaves(env.changes))]
            ELSE env
    IN [with_tree EXCEPT !.commit_id = FinalizeCommitId(with_tree)]

(* scribe_envelope_clone: a new envelope filled through the setters. *)
RECURSIVE CloneChanges(_, _)
CloneChanges(clone, changes) ==
    IF changes = <<>> THEN clone
    ELSE CloneChanges(
            scribe_envelope_add_change(clone, Head(changes).table_name,
                Head(changes).operation, Head(changes).primary_key,
                Head(changes).before_hash, Head(changes).after_hash),
            Tail(changes))

scribe_envelope_clone(env, time) ==
    LET c0 == [scribe_envelope_new(time) EXCEPT
                  !.commit_id = env.commit_id,
                  !.parent_id = env.parent_id,
                  !.tree_hash = env.tree_hash]
        c1 == scribe_envelope_set_author(c0, env.author.id, env.author.role)
        c2 == IF env.author.email # NULL
              THEN scribe_envelope_set_author_email(c1, env.author.email) ELSE c1
        c3 == scribe_envelope_set_process(c2, env.process.name, env.process.version,
                                          env.process.params)
        c4 == IF env.process.source # NULL
              THEN scribe_envelope_set_process_source(c3, env.process.source) ELSE c3
        c5 == IF env.message # NULL
              THEN scribe_envelope_set_message(c4, env.message) ELSE c4
        c6 == [c5 EXCEPT !.timestamp = env.timestamp]
    IN CloneChanges(c6, env.changes)

(* scribe_envelope_verify: the error it returns.  The clone's timestamp is *)
(* overwritten, so the time of the call does not matter.                   *)
scribe_envelope_verify(env) ==
    LET copy == [scribe_envelope_clone(env, 0) EXCEPT !.commit_id = SCRIBE_ZERO_HASH]
        computed == scribe_hash_bytes(scribe_envelope_to_json(copy))
    IN IF scribe_hash_equal(computed, env.commit_id) THEN "OK" ELSE "HASH_MISMATCH"

(***************************************************************************)
(* The commit store (storage/database.c).  commits is the set of rows of   *)
(* the commits table, changes the rows of the changes table in id order    *)
(* (ids are AUTOINCREMENT and no row is ever deleted, so a row's id is its *)
(* position), refs the refs table as a function from name to hash text.    *)
(***************************************************************************)
ValidOperations == {"INSERT", "UPDATE", "DELETE"}

(* The values scribe_db_store_commit binds to the INSERT INTO commits. *)
CommitRow(env) ==
    [hash |-> scribe_hash_to_hex(env.commit_id),
     parent_hash |-> IF scribe_hash_is_zero(env.parent_id) THEN NullText
                     ELSE scribe_hash_to_hex(env.parent_id),
     tree_hash |-> scribe_hash_to_hex(env.tree_hash),
     author_id |-> env.author.id,
     author_role |-> env.author.role,
     author_email |-> env.author.email,
     process_name |-> env.process.name,
     process_version |-> env.process.version,
     process_params |-> env.process.params,
     process_source |-> env.process.source,
     message |-> env.message,
     timestamp |-> env.timestamp]

(* The values bound to the INSERT INTO changes for one change. *)
ChangeRow(env, ch) ==
    [commit_hash |-> scribe_hash_to_hex(env.commit_id),
     table_name |-> ch.table_name,
     operation |-> ch.operation,
     primary_key |-> ch.primary_key,
     before_hash |-> IF scribe_hash_is_zero(ch.before_hash) THEN NullText
                     ELSE scribe_hash_to_hex(ch.before_hash),
     after_hash |-> IF scribe_hash_is_zero(ch.after_hash) THEN NullText
                    ELSE scribe_hash_to_hex(ch.after_hash)]

(* INSERT INTO commits: the primary key and the NOT NULL columns of the    *)
(* schema decide; a failed statement changes nothing.                      *)
InsertOrReplaceCommit(cm, row) ==
    [rc |-> "DONE", commits |-> {r \in cm : r.hash # row.hash} \cup {row}]
InsertCommit(cm, row) ==
    IF \/ \E r \in cm : r.hash = row.hash
       \/ row.author_id = NULL
       \/ row.process_name = NULL
    THEN [rc |-> "CONSTRAINT", commits |-> cm]
    ELSE [rc |-> "DONE", commits |-> cm \cup {row}]

(* An INSERT OR REPLACE INTO changes keyed on (table_name, primary_key):    *)
(* the rows other commits hold for the same key are replaced.              *)
InsertOrReplaceChange(cm, chg, row) ==
    LET other(r) == r.table_name # row.table_name \/ r.primary_key # row.primary_key
    IN [rc |-> "DONE", changes |-> Append(SelectSeq(chg, other), row)]

(* INSERT INTO changes: NOT NULL columns, the CHECK on operation and the   *)
(* foreign key to commits(hash).                                           *)
InsertChange(cm, chg, row) ==
    IF \/ row.table_name = NULL
       \/ row.operation = NULL
       \/ row.primary_key = NULL
       \/ row.operation \notin ValidOperations
       \/ ~\E r \in cm : r.hash = row.commit_hash
    THEN [rc |-> "CONSTRAINT", changes |-> chg]
    ELSE [rc |-> "DONE", changes |-> Append(chg, row)]

(* scribe_db_get_ref: the error and the digest written to out_hash. *)
scribe_db_get_ref(rf, name) ==
    IF name \notin DOMAIN rf
    THEN [err |-> "NOT_FOUND", hash |-> SCRIBE_ZERO_HASH]
    ELSE IF HasHexLength(rf[name])
         THEN [err |-> "OK",
               hash |-> scribe_hash_from_hex(rf[name], SCRIBE_ZERO_HASH).hash]
         ELSE [err |-> "OK", hash |-> SCRIBE_ZERO_HASH]

(* INSERT OR IGNORE in place of INSERT OR REPLACE: an existing row stays. *)
InsertOrIgnoreRef(rf, name, hash) ==
    [n \in DOMAIN rf \cup {name} |-> IF n \in DOMAIN rf THEN rf[n] ELSE scribe_hash_to_hex(hash)]

(* scribe_db_set_ref: INSERT OR REPLACE INTO refs. *)
scribe_db_set_ref(rf, name, hash) ==
    [n \in DOMAIN rf \cup {name} |->
        IF n = name THEN scribe_hash_to_hex(hash) ELSE rf[n]]

(* scribe_db_load_commit: found is FALSE where the code returns NULL. *)
RECURSIVE LoadChanges(_, _)
LoadChanges(env, rows) ==
    IF rows = <<>> THEN env
    ELSE LoadChanges(
            scribe_envelope_add_change(env, Head(rows).table_name,
                Head(rows).operation, Head(rows).primary_key,
                scribe_hash_from_hex(Head(rows).before_hash, SCRIBE_ZERO_HASH).hash,
                scribe_hash_from_hex(Head(rows).after_hash, SCRIBE_ZERO_HASH).hash),
            Tail(rows))

scribe_db_load_commit(cm, chg, hash) ==
    LET hash_hex == scribe_hash_to_hex(hash)
        rows == {r \in cm : r.hash = hash_hex}
    IN IF rows = {} THEN [found |-> FALSE, env |-> scribe_envelope_new(0)]
       ELSE
        LET r == CHOOSE x \in rows : TRUE
            e0 == [scribe_envelope_new(0) EXCEPT
                     !.commit_id = scribe_hash_from_hex(r.hash, SCRIBE_ZERO_HASH).hash,
                     !.parent_id = scribe_hash_from_hex(r.parent_hash, SCRIBE_ZERO_HASH).hash,
                     !.tree_hash = scribe_hash_from_hex(r.tree_hash, SCRIBE_ZERO_HASH).hash]
            e1 == scribe_envelope_set_author(e0, r.author_id, r.author_role)
            e2 == IF r.author_email # NULL
                  THEN scribe_envelope_set_author_email(e1, r.author_email) ELSE e1
            e3 == scribe_envelope_set_process(e2, r.process_name, r.process_version,
                                              r.process_params)
            e4 == IF r.process_source # NULL
                  THEN scribe_envelope_set_process_source(e3, r.process_source) ELSE e3
            e5 == IF r.message # NULL
                  THEN scribe_envelope_set_message(e4, r.message) ELSE e4
            e6 == [e5 EXCEPT !.timestamp = r.timestamp]
            mine(row) == row.commit_hash = hash_hex
        IN [found |-> TRUE, env |-> LoadChanges(e6, SelectSeq(chg, mine))]

scribe_db_commit_exists(cm, hash) ==
    \E r \in cm : r.hash = scribe_hash_to_hex(hash)

DefaultHistoryLimit == 100

(* The loop of scribe_db_get_history: while the list is short of limit and *)
(* current is not zero, current is recorded and replaced by its parent: a  *)
(* missing row or a null parent_hash gives zero, and a parent text that    *)
(* does not decode leaves current as it was.                               *)
WalkIgnoresZeroParent(current, list, limit) == Len(list) < limit
WalkContinues(current, list, limit) ==
    Len(list) < limit /\ ~scribe_hash_is_zero(current)

ParentOf(cm, current) ==
    LET rows == {r \in cm : r.hash = scribe_hash_to_hex(current)}
    IN IF rows = {} THEN SCRIBE_ZERO_HASH
       ELSE LET r == CHOOSE x \in rows : TRUE
            IN IF r.parent_hash.form = "null" THEN SCRIBE_ZERO_HASH
               ELSE scribe_hash_from_hex(r.parent_hash, current).hash

RECURSIVE HistoryWalk(_, _, _, _)
HistoryWalk(cm, current, list, limit) ==
    IF WalkContinues(current, list, limit)
    THEN HistoryWalk(cm, ParentOf(cm, current), Append(list, current), limit)
    ELSE list

(* A walk that starts at HEAD whatever from is. *)
GetHistoryFromHead(cm, rf, from, limit) ==
    LET lim == IF limit = 0 THEN DefaultHistoryLimit ELSE limit
        head == scribe_db_get_ref(rf, "HEAD")
    IN IF head.err # "OK" \/ scribe_hash_is_zero(head.hash)
       THEN [ok |-> FALSE, hashes |-> <<>>]
       ELSE [ok |-> TRUE, hashes |-> HistoryWalk(cm, head.hash, <<>>, lim)]

(* scribe_db_get_history(db, from, limit): ok is FALSE where the code      *)
(* returns NULL.  A null from pointer is passed as the zero digest.        *)
scribe_db_get_history(cm, rf, from, limit) ==
    LET lim == IF limit = 0 THEN DefaultHistoryLimit ELSE limit
        head == scribe_db_get_ref(rf, "HEAD")
    IN IF ~scribe_hash_is_zero(from)
       THEN [ok |-> TRUE, hashes |-> HistoryWalk(cm, from, <<>>, lim)]
       ELSE IF head.err # "OK" \/ scribe_hash_is_zero(head.hash)
            THEN [ok |-> FALSE, hashes |-> <<>>]
            ELSE [ok |-> TRUE, hashes |-> HistoryWalk(cm, head.hash, <<>>, lim)]

(***************************************************************************)
(* The verify command (commands/cmd_verify.c).                             *)
(***************************************************************************)
verify_commit(cm, chg, hash) ==
    LET loaded == scribe_db_load_commit(cm, chg, hash)
    IN IF ~loaded.found THEN "FAILED (not found)"
       ELSE IF scribe_envelope_verify(loaded.env) # "OK" THEN "FAILED (hash mismatch)"
       ELSE IF /\ ~scribe_hash_is_zero(loaded.env.parent_id)
               /\ ~scribe_db_load_commit(cm, chg, loaded.env.parent_id).found
            THEN "FAILED (missing parent)"
       ELSE "OK"

VerifyHistoryLimit == 1000

(* cmd_verify without a commit argument: the per-commit lines, newest      *)
(* first, and the exit code.                                               *)
cmd_verify(cm, chg, rf) ==
    LET start == scribe_db_get_ref(rf, "HEAD").hash
        history == scribe_db_get_history(cm, rf, start, VerifyHistoryLimit)
        lines == [i \in 1..Len(history.hashes) |->
                    verify_commit(cm, chg, history.hashes[i])]
    IN IF scribe_hash_is_zero(start) THEN [exit |-> 0, lines |-> <<>>]
       ELSE IF ~history.ok THEN [exit |-> 1, lines |-> <<>>]
       ELSE [exit |-> IF \A i \in 1..Len(lines) : lines[i] = "OK" THEN 0 ELSE 1,
             lines |-> lines]

(* Chains of the model have at most MaxRuns commits, so the 1000 of the     *)
(* command is out of their reach: VerifyWalkBound stands for it, scaled    *)
(* down to a length the chains exceed, as PollLimit stands for LIMIT 100.  *)
VerifyWalkBound == 1

(* cmd_verify with a commit argument (start) and with most as the limit it *)
(* passes to scribe_repo_get_history: the ids it examined, the per-commit  *)
(* lines and the exit code.  "Verification successful!" is printed exactly *)
(* when the exit code is 0 and start is not zero.                          *)
cmd_verify_from(cm, chg, rf, start, most) ==
    LET history == scribe_db_get_history(cm, rf, start, most)
        lines == [i \in 1..Len(history.hashes) |->
                    verify_commit(cm, chg, history.hashes[i])]
    IN IF scribe_hash_is_zero(start)
       THEN [exit |-> 0, examined |-> {}, lines |-> <<>>]
       ELSE IF ~history.ok THEN [exit |-> 1, examined |-> {}, lines |-> <<>>]
       ELSE [exit |-> IF \A i \in 1..Len(lines) : lines[i] = "OK" THEN 0 ELSE 1,
             examined |-> {history.hashes[i] : i \in 1..Len(history.hashes)},
             lines |-> lines]

(***************************************************************************)
(* State.                                                                  *)
(***************************************************************************)
VARIABLES
    repoExists, \* .scribe and scribe.db exist, the schema is created
    commits,    \* the commits table: a set of rows
    changes,    \* the changes table: its rows in id order
    refs,       \* the refs table: name -> hash text
    now,        \* time(NULL)
    pc,         \* where the writer is: idle, store_commit, store_changes, set_head
    cmd,        \* which writer runs: "commit" (cmd_commit) or "watch" (on_change)
    wenv,       \* the writer's envelope
    wi,         \* the index of the next change scribe_db_store_commit inserts
    pre,        \* history: the tables as they were when the writer started
    failed,     \* history: an INSERT or the HEAD update of this run failed
    result,     \* history: what the finished run told its caller
    storeRc,    \* history: what scribe_repo_store_commit returned in this run
    insertRc,   \* history: sqlite3_step's result for the INSERT INTO commits
    headLog,    \* history: the ids HEAD was set to, in order
    storedLog,  \* history: the ids scribe_repo_store_commit returned OK for
    faults,     \* how many statements have failed for reasons outside the model
    runs,       \* how many writer runs have started
    tampered,   \* history: the commit a store column of which was altered
    E,          \* an API client's envelope
    Eop,        \* the last envelope operation the client called
    Eprev,      \* history: E before that operation
    Eoverride,  \* history: scribe_envelope_set_tree_hash was called on E
    Eops,       \* how many operations the client has called
    audit,      \* upstream scribe_audit: row id -> its processed column
    mpc,        \* where scribe_pg_monitor_start is
    running,    \* monitor->running
    connected,  \* conn->state is SCRIBE_PG_CONNECTED
    selected,   \* the ids in the result of the poll's SELECT
    batch,      \* *out_count of the last poll
    bi,         \* the index of the next change the loop hands to the callback
    batchHead,  \* history: Len(headLog) when the last poll ran
    returned,   \* history: the ids of the rows polls have returned
    handled,    \* history: the ids for whose change a commit was stored
    stopAt,     \* history: where the loop was when stop was requested
    lastPollErr,\* history: why the last poll failed, until the reconnect
    startRc,    \* what scribe_pg_monitor_start returned
    pollFailed, \* history: a poll has returned an error
    mleaves,    \* a Merkle tree: the hashes of tree->leaves, in order
    mbuilt,     \* tree->built
    mroot,      \* tree->root's hash, NullHash while tree->root is null
    pf,         \* a proof: NullProof or [depth, hashes, positions]
    pfLeaf,     \* the leaf hash the proof is for
    pfRoot,     \* the root hash the proof is checked against
    pfFrom,     \* history: where pf comes from: create, receive, sibling, bit
    pfOrig,     \* history: the proof before an element of it was altered
    pfLevel,    \* history: the level of the altered element
    pfOk,       \* what scribe_merkle_proof_verify returned for pf
    mrc,        \* the last add or build call on the tree and what it returned
    lastWrite,  \* history: ref name -> the digest of the last set_ref that returned OK
    refGot,     \* history: the last scribe_db_get_ref call and what it returned
    objLong,    \* the path of an object file is 511 bytes long
    ofiles,     \* the objects directory: file name -> content
    opc,        \* where each process is in scribe_objects_store
    ocall,      \* the digest each process was called with
    orc,        \* what scribe_objects_store last returned to each process
    ostored,    \* history: the digests scribe_objects_store has returned OK for
    fsDirs,     \* the directories that exist, as sequences of path components
    nested,     \* the directories other than the work directory holding a .scribe
    initLast,   \* history: the last scribe init with a path, and how it ended
    schemaOther, \* config.schema_version was set to a value other than '1'
    pgState,    \* conn->state of the upstream connection
    pgHandle,   \* conn->pg_conn: "null" or "open"
    pgRc,       \* the last call on the connection and what it returned
    pgError,    \* conn->last_error: "null" or the call whose failure set it
    issued,     \* the number of changes upstream has written to the slot
    slot,       \* the changes in the replication slot not yet consumed
    lpc,        \* where the poll in logical mode is
    lconsumed,  \* history: the changes the slot was advanced past
    lreturned   \* history: the changes polls have returned to their caller

storeVars == <<repoExists, commits, changes, refs>>
writerVars == <<pc, cmd, wenv, wi>>
historyVars == <<pre, failed, result, storeRc, insertRc, headLog, storedLog>>
repoVars == <<storeVars, now, writerVars, historyVars, faults, runs, tampered>>
envVars == <<E, Eop, Eprev, Eoverride, Eops>>
monVars == <<audit, mpc, running, connected, selected, batch, bi, batchHead, returned,
             handled, stopAt, lastPollErr, startRc, pollFailed>>
merkleVars == <<mleaves, mbuilt, mroot, pf, pfLeaf, pfRoot, pfFrom, pfOrig, pfLevel, pfOk,
                mrc>>
refVars == <<lastWrite, refGot>>
objVars == <<objLong, ofiles, opc, ocall, orc, ostored>>
fsVars == <<fsDirs, nested, initLast, schemaOther>>
pgVars == <<pgState, pgHandle, pgRc, pgError, issued, slot, lpc, lconsumed, lreturned>>
libVars == <<merkleVars, refVars, objVars, fsVars, pgVars>>
appVars == <<repoVars, envVars, monVars>>
exceptMerkle == <<appVars, refVars, objVars, fsVars, pgVars>>
exceptObj == <<appVars, merkleVars, refVars, fsVars, pgVars>>
exceptPg == <<appVars, merkleVars, refVars, objVars, fsVars>>
vars == <<appVars, libVars>>

NoTamper == SCRIBE_ZERO_HASH

(* A statement may fail (SQLITE_BUSY, SQLITE_FULL, SQLITE_IOERR; for the   *)
(* poll's UPDATE, any PostgreSQL error) while the fault budget lasts.      *)
FaultChoices == IF faults < MaxFaults THEN {FALSE, TRUE} ELSE {FALSE}

Snapshot == [commits |-> commits, changes |-> changes, refs |-> refs]

(***************************************************************************)
(* scribe_repo_init through cmd_init: fails when a repository exists;      *)
(* otherwise creates the schema, whose INSERT OR IGNORE gives HEAD the      *)
(* empty text.                                                             *)
(***************************************************************************)
SchemaRefs(rf) ==
    [n \in DOMAIN rf \cup {"HEAD"} |-> IF n \in DOMAIN rf THEN rf[n] ELSE EmptyText]

CmdInit ==
    /\ pc = "idle"
    /\ IF repoExists
       THEN UNCHANGED <<repoExists, refs>>
       ELSE /\ repoExists' = TRUE
            /\ refs' = SchemaRefs(refs)
    /\ UNCHANGED <<commits, changes, now, writerVars, historyVars, faults, runs,
                   tampered, envVars, libVars, monVars>>

Tick ==
    /\ pc = "idle"
    /\ now < MaxTime
    /\ now' = now + 1
    /\ UNCHANGED <<storeVars, writerVars, historyVars, faults, runs, tampered, envVars,
                   libVars, monVars>>

(***************************************************************************)
(* cmd_commit (commands/cmd_commit.c).                                     *)
(***************************************************************************)
(* The config scribe_repo_init writes and scribe_config_load reads back. *)
ConfigAuthorId == "user:anonymous"
ConfigAuthorRole == "developer"

(* struct commit_args as argp fills it: an option not given is null. *)
NoOptions ==
    [message |-> NULL, author |-> NULL, role |-> NULL, process |-> NULL,
     version |-> NULL, table |-> NULL, operation |-> NULL, data |-> NULL]

CommitArgs ==
    { [NoOptions EXCEPT !.message = "seed", !.table = "orders",
                        !.operation = "INSERT", !.data = "{a:1}"],
      [NoOptions EXCEPT !.process = "etl.py", !.version = "v1", !.table = "orders",
                        !.operation = "UPDATE", !.data = "{a:2}"],
      [NoOptions EXCEPT !.message = "seed", !.table = "orders", !.operation = "DELETE"],
      [NoOptions EXCEPT !.message = "seed", !.table = "orders",
                        !.operation = "UPSERT", !.data = "{a:1}"],
      [NoOptions EXCEPT !.message = "seed", !.author = "user:alice"] }

(* Lines 80-141: the envelope cmd_commit builds and finalizes.  head is    *)
(* scribe_repo_get_head's result.                                          *)
CmdCommitEnvelope(args, head, time) ==
    LET e0 == scribe_envelope_new(time)
        author_id == IF args.author # NULL THEN args.author ELSE ConfigAuthorId
        author_role == IF args.role # NULL THEN args.role ELSE ConfigAuthorRole
        e1 == scribe_envelope_set_author(e0, author_id, author_role)
        process_name == IF args.process # NULL THEN args.process ELSE "manual"
        e2 == scribe_envelope_set_process(e1, process_name, args.version, NULL)
        e3 == IF args.message # NULL
              THEN scribe_envelope_set_message(e2, args.message) ELSE e2
        e4 == IF head.err = "OK" /\ ~scribe_hash_is_zero(head.hash)
              THEN scribe_envelope_set_parent(e3, head.hash) ELSE e3
        data_hash == IF args.data # NULL THEN scribe_hash_bytes(Str(args.data))
                     ELSE SCRIBE_ZERO_HASH
        before == IF args.operation = "DELETE" THEN data_hash ELSE SCRIBE_ZERO_HASH
        after == IF args.operation = "DELETE" THEN SCRIBE_ZERO_HASH ELSE data_hash
        e5 == IF args.table # NULL /\ args.operation # NULL
              THEN scribe_envelope_add_change(e4, args.table, args.operation,
                       IF args.data # NULL THEN args.data ELSE "{}", before, after)
              ELSE e4
    IN scribe_envelope_finalize(e5)

(***************************************************************************)
(* on_change (commands/cmd_watch.c).  scribe_pg_trigger_poll hands the     *)
(* callback rows it allocated with calloc and never filled; the second     *)
(* change is a row as pg_monitor.h documents it.                           *)
(***************************************************************************)
CallocChange ==
    [table_name |-> NULL, operation |-> NULL, primary_key_json |-> NULL,
     before_json |-> NULL, after_json |-> NULL, transaction_id |-> 0]

PgChanges ==
    { CallocChange,
      [table_name |-> "orders", operation |-> "UPDATE", primary_key_json |-> "{\"id\":1}",
       before_json |-> "{a:1}", after_json |-> "{a:2}", transaction_id |-> 7] }

PgProcessName(transaction_id) ==
    IF transaction_id = 0 THEN "pg_txid:0" ELSE "pg_txid:7"

PgMessage(change) ==
    IF change.operation = NULL THEN "change on unknown" ELSE "UPDATE on orders"

OnChangeEnvelope(change, head, time) ==
    LET e0 == scribe_envelope_new(time)
        e1 == scribe_envelope_set_author(e0, ConfigAuthorId, ConfigAuthorRole)
        e2 == scribe_envelope_set_process(e1, PgProcessName(change.transaction_id),
                                          "postgresql-cdc", NULL)
        e3 == scribe_envelope_set_message(e2, PgMessage(change))
        e4 == IF head.err = "OK" /\ ~scribe_hash_is_zero(head.hash)
              THEN scribe_envelope_set_parent(e3, head.hash) ELSE e3
        before_hash == IF change.before_json # NULL
                       THEN scribe_hash_bytes(Str(change.before_json))
                       ELSE SCRIBE_ZERO_HASH
        after_hash == IF change.after_json # NULL
                      THEN scribe_hash_bytes(Str(change.after_json))
                      ELSE SCRIBE_ZERO_HASH
        e5 == scribe_envelope_add_change(e4, change.table_name, change.operation,
                                         change.primary_key_json, before_hash, after_hash)
    IN scribe_envelope_finalize(e5)

(***************************************************************************)
(* The writer, statement by statement.                                     *)
(***************************************************************************)
(* scribe_repo_get_head: the HEAD row of refs. *)
scribe_repo_get_head == scribe_db_get_ref(refs, "HEAD")

(* scribe_repo_get_head as the writer calls it: a failed prepare is DB. *)
WriterGetHead(fault) ==
    IF fault THEN [err |-> "DB", hash |-> SCRIBE_ZERO_HASH]
    ELSE scribe_repo_get_head

WriterStart(who, env, fault) ==
    /\ pc' = "store_commit"
    /\ cmd' = who
    /\ wenv' = env
    /\ wi' = 1
    /\ pre' = Snapshot
    /\ failed' = FALSE
    /\ result' = "none"
    /\ storeRc' = "none"
    /\ insertRc' = "none"
    /\ faults' = IF fault THEN faults + 1 ELSE faults
    /\ runs' = runs + 1
    /\ UNCHANGED <<storeVars, now, headLog, storedLog, tampered, envVars, libVars>>

CmdCommitStart ==
    /\ pc = "idle"
    /\ repoExists
    /\ runs < MaxRuns
    /\ \E args \in CommitArgs, fault \in FaultChoices :
          WriterStart("commit", CmdCommitEnvelope(args, WriterGetHead(fault), now), fault)
    /\ UNCHANGED monVars

OnChangeStart ==
    /\ pc = "idle"
    /\ repoExists
    /\ runs < MaxRuns
    /\ \E change \in PgChanges, fault \in FaultChoices :
          WriterStart("watch", OnChangeEnvelope(change, WriterGetHead(fault), now), fault)
    /\ UNCHANGED monVars

(* A writer that goes on to set HEAD after a failed call. *)
WriterIgnoresFailure ==
    /\ pc' = "set_head"
    /\ result' = result

(* What an error return of the writer's current call leads to: cmd_commit  *)
(* prints the error and exits 1; on_change returns to the monitor loop.    *)
WriterFails ==
    /\ pc' = "idle"
    /\ result' = IF cmd = "commit" THEN "error" ELSE "void"

(* scribe_db_store_commit, lines 149-188: INSERT INTO commits. *)
StoreCommitRow ==
    /\ pc = "store_commit"
    /\ \E fault \in FaultChoices :
          LET ins == IF fault THEN [rc |-> "ERROR", commits |-> commits]
                     ELSE InsertCommit(commits, CommitRow(wenv))
          IN /\ insertRc' = ins.rc
             /\ commits' = ins.commits
             /\ faults' = IF fault THEN faults + 1 ELSE faults
             /\ IF ins.rc # "DONE"
                THEN /\ WriterFails
                     /\ storeRc' = "DB"
                     /\ failed' = TRUE
                     /\ UNCHANGED storedLog
                ELSE IF Len(wenv.changes) = 0
                THEN /\ pc' = "set_head"
                     /\ storeRc' = "OK"
                     /\ storedLog' = Append(storedLog, wenv.commit_id)
                     /\ UNCHANGED <<failed, result>>
                ELSE /\ pc' = "store_changes"
                     /\ UNCHANGED <<failed, result, storeRc, storedLog>>
    /\ UNCHANGED <<repoExists, changes, refs, now, cmd, wenv, wi, pre, headLog, runs,
                   tampered, envVars, libVars, monVars>>

(* scribe_db_store_commit, lines 195-216: one turn of the loop over the    *)
(* changes.  A failed prepare continues, the result of sqlite3_step is     *)
(* not looked at, and after the last change the function returns OK.       *)
StoreChangeRow ==
    /\ pc = "store_changes"
    /\ \E fault \in FaultChoices :
          LET ins == IF fault THEN [rc |-> "ERROR", changes |-> changes]
                     ELSE InsertChange(commits, changes, ChangeRow(wenv, wenv.changes[wi]))
          IN /\ changes' = ins.changes
             /\ faults' = IF fault THEN faults + 1 ELSE faults
             /\ failed' = (failed \/ ins.rc # "DONE")
    /\ wi' = wi + 1
    /\ IF wi = Len(wenv.changes)
       THEN /\ pc' = "set_head"
            /\ storeRc' = "OK"
            /\ storedLog' = Append(storedLog, wenv.commit_id)
       ELSE UNCHANGED <<pc, storeRc, storedLog>>
    /\ UNCHANGED <<repoExists, commits, refs, now, cmd, wenv, pre, result, insertRc,
                   headLog, runs, tampered, envVars, libVars, monVars>>

(* scribe_repo_set_head(repo, &env->commit_id) after a stored commit:      *)
(* cmd_commit exits 1 when it fails, on_change does not look at its result.*)
SetHead ==
    /\ pc = "set_head"
    /\ pc' = "idle"
    /\ \E fault \in FaultChoices :
          /\ faults' = IF fault THEN faults + 1 ELSE faults
          /\ failed' = (failed \/ fault)
          /\ IF fault
             THEN /\ UNCHANGED <<refs, headLog>>
                  /\ result' = IF cmd = "commit" THEN "error" ELSE "void"
             ELSE /\ refs' = scribe_db_set_ref(refs, "HEAD", wenv.commit_id)
                  /\ headLog' = Append(headLog, wenv.commit_id)
                  /\ result' = IF cmd = "commit" THEN "ok" ELSE "void"
    /\ UNCHANGED <<repoExists, commits, changes, now, cmd, wenv, wi, pre, storeRc,
                   insertRc, storedLog, runs, tampered, envVars, libVars, monVars>>

(***************************************************************************)
(* A client of the envelope API: one envelope, built and finalized in any  *)
(* order.                                                                  *)
(***************************************************************************)
DigestA == scribe_hash_bytes(Str("{a:1}"))
DigestB == scribe_hash_bytes(Str("{a:2}"))
DigestC == scribe_hash_bytes(Str("{a:3}"))
DigestD == scribe_hash_bytes(Str("{a:4}"))

(* The changes a client adds: an INSERT, a DELETE, two UPDATEs, and a      *)
(* change without any digest.                                              *)
ChangeInputs ==
    { [operation |-> "INSERT", before_hash |-> SCRIBE_ZERO_HASH, after_hash |-> DigestA],
      [operation |-> "UPDATE", before_hash |-> DigestA, after_hash |-> DigestB],
      [operation |-> "DELETE", before_hash |-> DigestB, after_hash |-> SCRIBE_ZERO_HASH],
      [operation |-> "UPDATE", before_hash |-> DigestC, after_hash |-> DigestD],
      [operation |-> "INSERT", before_hash |-> SCRIBE_ZERO_HASH, after_hash |-> SCRIBE_ZERO_HASH] }

EnvInit ==
    /\ E = scribe_envelope_new(1)
    /\ Eop = "new"
    /\ Eprev = scribe_envelope_new(1)
    /\ Eoverride = FALSE
    /\ Eops = 0

EnvStep(op) ==
    /\ Eops < MaxEnvOps
    /\ Eops' = Eops + 1
    /\ Eop' = op
    /\ Eprev' = E
    /\ UNCHANGED <<repoVars, monVars, libVars>>

EnvSetAuthor ==
    /\ EnvStep("set_author")
    /\ \E id \in {NULL, "user:alice"} :
          E' = scribe_envelope_set_author(E, id, "data_engineer")
    /\ UNCHANGED Eoverride

EnvSetProcess ==
    /\ EnvStep("set_process")
    /\ E' = scribe_envelope_set_process(E, "etl.py", "v1", NULL)
    /\ UNCHANGED Eoverride

EnvSetParent ==
    /\ EnvStep("set_parent")
    /\ \E parent \in {SCRIBE_ZERO_HASH, DigestA} :
          E' = scribe_envelope_set_parent(E, parent)
    /\ UNCHANGED Eoverride

EnvSetMessage ==
    /\ EnvStep("set_message")
    /\ \E message \in {NULL, "seed"} :
          E' = scribe_envelope_set_message(E, message)
    /\ UNCHANGED Eoverride

EnvSetTreeHash ==
    /\ EnvStep("set_tree_hash")
    /\ \E tree_hash \in {SCRIBE_ZERO_HASH, DigestB} :
          E' = scribe_envelope_set_tree_hash(E, tree_hash)
    /\ Eoverride' = TRUE

EnvAddChange ==
    /\ Len(E.changes) < MaxChanges
    /\ EnvStep("add_change")
    /\ \E ch \in ChangeInputs :
          E' = scribe_envelope_add_change(E, "orders", ch.operation, "{\"id\":1}",
                                          ch.before_hash, ch.after_hash)
    /\ UNCHANGED Eoverride

EnvFinalize ==
    /\ EnvStep("finalize")
    /\ E' = scribe_envelope_finalize(E)
    /\ UNCHANGED Eoverride

EnvNext ==
    \/ EnvSetAuthor
    \/ EnvSetProcess
    \/ EnvSetParent
    \/ EnvSetMessage
    \/ EnvSetTreeHash
    \/ EnvAddChange
    \/ EnvFinalize

(***************************************************************************)
(* The watch daemon (commands/cmd_watch.c) in trigger mode: the upstream   *)
(* scribe_audit table, scribe_pg_monitor_start's loop, the poll            *)
(* (scribe_pg_monitor_poll, scribe_pg_trigger_poll) and the callback       *)
(* on_change, which runs the writer's statements.  A PostgreSQL call can   *)
(* fail, any number of times.                                              *)
(***************************************************************************)
(* Why a poll fails: the connect of a disconnected handle fails; PQexec    *)
(* fails because the connection was lost; the query itself fails.          *)
PollFaultCauses ==
    {"none", "lost", "query"} \cup (IF connected THEN {} ELSE {"connect"})

(* The error scribe_pg_monitor_poll returns for a cause. *)
PollError(cause) ==
    IF cause = "connect" THEN "SCRIBE_ERR_PG_CONNECT" ELSE "SCRIBE_ERR_PG_QUERY"

(* WHERE NOT processed ORDER BY id LIMIT n. *)
Unprocessed(rows) == SelectSeq([i \in 1..Len(rows) |-> i], LAMBDA i : ~rows[i])

FirstUnprocessed(rows, n) ==
    LET ids == Unprocessed(rows)
    IN SubSeq(ids, 1, IF Len(ids) < n THEN Len(ids) ELSE n)

(* An upstream transaction fires scribe_audit_trigger. *)
UpstreamInsert ==
    /\ Len(audit) < MaxAudit
    /\ audit' = Append(audit, FALSE)
    /\ UNCHANGED <<repoVars, envVars, libVars, mpc, running, connected, selected, batch, bi,
                   batchHead, returned, handled, stopAt, lastPollErr, startRc, pollFailed>>

(* cmd_watch up to the call of scribe_pg_monitor_start, whose first        *)
(* statement sets running; scribe_pg_monitor_setup has connected.          *)
MonitorStart ==
    /\ mpc = "stopped"
    /\ repoExists
    /\ pc = "idle"
    /\ running' = TRUE
    /\ connected' = TRUE
    /\ mpc' = "test"
    /\ UNCHANGED <<repoVars, envVars, libVars, audit, selected, batch, bi, batchHead, returned,
                   handled, stopAt, lastPollErr, startRc, pollFailed>>

(* cmd_watch from the two signal() calls to the return of                  *)
(* scribe_pg_monitor_setup; when the setup fails the command exits.        *)
MonitorSetup ==
    /\ mpc = "stopped"
    /\ repoExists
    /\ pc = "idle"
    /\ \E ok \in BOOLEAN :
          IF ok THEN mpc' = "setup" /\ connected' = TRUE
          ELSE UNCHANGED <<mpc, connected>>
    /\ UNCHANGED <<repoVars, envVars, libVars, audit, running, selected, batch, bi, batchHead,
                   returned, handled, stopAt, lastPollErr, startRc, pollFailed>>

(* The call of scribe_pg_monitor_start after the setup: monitor->running   *)
(* = 1, whatever it was.                                                   *)
MonitorRun ==
    /\ mpc = "setup"
    /\ running' = TRUE
    /\ mpc' = "test"
    /\ UNCHANGED <<repoVars, envVars, libVars, audit, connected, selected, batch, bi,
                   batchHead, returned, handled, stopAt, lastPollErr, startRc, pollFailed>>

(* signal_handler: scribe_pg_monitor_stop. *)
StopRequest ==
    /\ mpc \notin {"stopped", "returned"}
    /\ ~stopAt.requested
    /\ running' = FALSE
    /\ stopAt' = [requested |-> TRUE, mpc |-> mpc, bi |-> bi]
    /\ UNCHANGED <<repoVars, envVars, libVars, audit, mpc, connected, selected, batch, bi,
                   batchHead, returned, handled, lastPollErr, startRc, pollFailed>>

(* while (monitor->running): the body begins with the poll. *)
LoopIgnoresFlag(flag) == TRUE
LoopContinues(flag) == flag

MonitorTest ==
    /\ mpc = "test"
    /\ IF LoopContinues(running)
       THEN mpc' = "select" /\ UNCHANGED startRc
       ELSE mpc' = "returned" /\ startRc' = "OK"
    /\ UNCHANGED <<repoVars, envVars, libVars, audit, running, connected, selected, batch, bi,
                   batchHead, returned, handled, stopAt, lastPollErr, pollFailed>>

(* Where the loop goes when the poll returned an error: disconnect,        *)
(* sleep(1), connect, continue.                                            *)
PollErrorReturns(err) == "returned"
PollErrorTarget(err) == "reconnect"

(* scribe_pg_monitor_poll up to the result of the SELECT. *)
PollSelect ==
    /\ mpc = "select"
    /\ \E cause \in PollFaultCauses :
          IF cause # "none"
          THEN /\ lastPollErr' = cause
               /\ pollFailed' = TRUE
               /\ mpc' = PollErrorTarget(PollError(cause))
               /\ startRc' = IF mpc' = "returned" THEN PollError(cause) ELSE startRc
               /\ UNCHANGED <<connected, selected, batch, bi, batchHead>>
          ELSE /\ connected' = TRUE
               /\ selected' = FirstUnprocessed(audit, PollLimit)
               /\ IF selected' = <<>>
                  THEN mpc' = "deliver" /\ batch' = 0 /\ bi' = 1
                  ELSE mpc' = "mark" /\ UNCHANGED <<batch, bi>>
               /\ batchHead' = Len(headLog)
               /\ UNCHANGED <<lastPollErr, pollFailed, startRc>>
    /\ UNCHANGED <<repoVars, envVars, libVars, audit, running, returned, handled, stopAt>>

(* scribe_pg_trigger_poll, lines 157-175: the UPDATE marks the first       *)
(* unprocessed rows there are now, its result is not looked at, and the    *)
(* poll returns as many zeroed changes as it counted rows in the SELECT's  *)
(* result (the count is taken to be exact).                                *)
PollMark ==
    /\ mpc = "mark"
    /\ \E fault \in FaultChoices :
          /\ faults' = IF fault THEN faults + 1 ELSE faults
          /\ audit' = IF fault THEN audit
                      ELSE [i \in 1..Len(audit) |->
                               audit[i] \/ i \in Range(FirstUnprocessed(audit, PollLimit))]
    /\ batch' = Len(selected)
    /\ bi' = 1
    /\ returned' = returned \cup Range(selected)
    /\ mpc' = "deliver"
    /\ UNCHANGED <<storeVars, now, writerVars, historyVars, runs, tampered, envVars, libVars,
                   running, connected, selected, batchHead, handled, stopAt, lastPollErr,
                   startRc, pollFailed>>

(* for (i < count) callback(&changes[i], user_data): one turn, taken when  *)
(* the previous callback has returned; after the last one, the batch is    *)
(* freed.                                                                  *)
Deliver ==
    /\ mpc = "deliver"
    /\ pc = "idle"
    /\ handled' = IF bi > 1 /\ storeRc = "OK"
                  THEN handled \cup {selected[bi - 1]} ELSE handled
    /\ IF bi <= batch
       THEN /\ \E fault \in FaultChoices :
                  WriterStart("watch",
                      OnChangeEnvelope(CallocChange, WriterGetHead(fault), now), fault)
            /\ bi' = bi + 1
            /\ UNCHANGED mpc
       ELSE /\ mpc' = "sleep"
            /\ UNCHANGED <<repoVars, envVars, libVars, bi>>
    /\ UNCHANGED <<audit, running, connected, selected, batch, batchHead, returned,
                   stopAt, lastPollErr, startRc, pollFailed>>

(* usleep(poll_interval_ms * 1000). *)
MonitorSleep ==
    /\ mpc = "sleep"
    /\ mpc' = "test"
    /\ UNCHANGED <<repoVars, envVars, libVars, audit, running, connected, selected, batch, bi,
                   batchHead, returned, handled, stopAt, lastPollErr, startRc, pollFailed>>

(* scribe_pg_disconnect; sleep(1); scribe_pg_connect; continue. *)
MonitorReconnect ==
    /\ mpc = "reconnect"
    /\ \E fault \in BOOLEAN : connected' = ~fault
    /\ lastPollErr' = "none"
    /\ mpc' = "test"
    /\ UNCHANGED <<repoVars, envVars, libVars, audit, running, selected, batch, bi, batchHead,
                   returned, handled, stopAt, startRc, pollFailed>>

(***************************************************************************)
(* A client of the Merkle tree API (core/merkle.c): one tree, filled,      *)
(* built and asked for proofs; and proofs from elsewhere, checked as they  *)
(* came and with one element altered.                                      *)
(***************************************************************************)
NoLevel == 0

(* scribe_merkle_add_hash without the test of tree->built. *)
MerkleAddHashUnchecked ==
    /\ Len(mleaves) < MaxLeaves
    /\ \E hash \in {DigestA, DigestB, DigestC, DigestD} :
          mleaves' = Append(mleaves, hash)
    /\ mrc' = [call |-> "add_hash", err |-> "OK"]
    /\ UNCHANGED <<exceptMerkle, mbuilt, mroot, pf, pfLeaf, pfRoot, pfFrom, pfOrig,
                   pfLevel, pfOk>>

(* scribe_merkle_add_hash: the digest becomes a leaf, unless the tree is   *)
(* built.                                                                  *)
MerkleAddHash ==
    /\ IF mbuilt
       THEN /\ mrc' = [call |-> "add_hash", err |-> "INVALID_ARG"]
            /\ UNCHANGED mleaves
       ELSE /\ Len(mleaves) < MaxLeaves
            /\ \E hash \in {DigestA, DigestB, DigestC, DigestD} :
                  mleaves' = Append(mleaves, hash)
            /\ mrc' = [call |-> "add_hash", err |-> "OK"]
    /\ UNCHANGED <<exceptMerkle, mbuilt, mroot, pf, pfLeaf, pfRoot, pfFrom, pfOrig,
                   pfLevel, pfOk>>

(* scribe_merkle_add_field: create_leaf_node, unless the tree is built. *)
MerkleAddField ==
    /\ IF mbuilt
       THEN /\ mrc' = [call |-> "add_field", err |-> "INVALID_ARG"]
            /\ UNCHANGED mleaves
       ELSE /\ Len(mleaves) < MaxLeaves
            /\ mleaves' = Append(mleaves, scribe_hash_leaf(Str("{a:1}")))
            /\ mrc' = [call |-> "add_field", err |-> "OK"]
    /\ UNCHANGED <<exceptMerkle, mbuilt, mroot, pf, pfLeaf, pfRoot, pfFrom, pfOrig,
                   pfLevel, pfOk>>

(* scribe_merkle_build: a built tree is left as it is. *)
MerkleBuild ==
    /\ mbuilt' = TRUE
    /\ mroot' = IF mbuilt THEN mroot ELSE scribe_merkle_build(mleaves)
    /\ mrc' = [call |-> "build", err |-> "OK"]
    /\ UNCHANGED <<exceptMerkle, mleaves, pf, pfLeaf, pfRoot, pfFrom, pfOrig, pfLevel, pfOk>>

(* scribe_merkle_proof_create(tree, leaf_index), the caller keeping the     *)
(* leaf's hash and scribe_merkle_root.  calloc of zero elements, for the    *)
(* tree of one leaf, gives a pointer or null: with null no proof is made.   *)
MerkleProofCreate ==
    /\ mbuilt
    /\ \E leaf_index \in 0..(Len(mleaves) - 1) :
          /\ \E made \in (IF Len(mleaves) = 1 THEN {TRUE, FALSE} ELSE {TRUE}) :
                pf' = IF made THEN scribe_merkle_proof_create(mleaves, leaf_index)
                      ELSE NullProof
          /\ pfLeaf' = mleaves[leaf_index + 1]
    /\ pfRoot' = mroot
    /\ pfFrom' = "create"
    /\ pfOrig' = NullProof
    /\ pfLevel' = NoLevel
    /\ pfOk' = "unknown"
    /\ UNCHANGED <<exceptMerkle, mrc, mleaves, mbuilt, mroot>>

(* The proofs a verifier can be handed. *)
ProofInputs ==
    LET digests == {DigestA, DigestB, scribe_hash_combine(DigestA, DigestA)}
    IN UNION { [depth : {depth}, hashes : [1..depth -> digests],
                positions : [1..depth -> {0, 1}]] : depth \in 0..MaxDepth }

(* A proof, a leaf hash and a root hash arrive; the root is the one the    *)
(* proof leads to, or another digest.                                      *)
ProofReceive ==
    /\ pfFrom = "none"
    /\ \E proof \in ProofInputs, leaf_hash \in {DigestA, DigestB} :
          /\ pf' = proof
          /\ pfLeaf' = leaf_hash
          /\ \E root_hash \in {ProofFold(proof, leaf_hash, proof.depth), DigestC} :
                pfRoot' = root_hash
    /\ pfFrom' = "receive"
    /\ pfOrig' = NullProof
    /\ pfLevel' = NoLevel
    /\ pfOk' = "unknown"
    /\ UNCHANGED <<exceptMerkle, mrc, mleaves, mbuilt, mroot>>

(* One sibling digest of the received proof is replaced by another digest. *)
ProofAlterSibling ==
    /\ pfFrom = "receive"
    /\ \E level \in 1..pf.depth, digest \in {DigestA, DigestB, DigestC} :
          /\ digest # pf.hashes[level]
          /\ pf' = [pf EXCEPT !.hashes[level] = digest]
          /\ pfLevel' = level
    /\ pfFrom' = "sibling"
    /\ pfOrig' = pf
    /\ pfOk' = "unknown"
    /\ UNCHANGED <<exceptMerkle, mrc, mleaves, mbuilt, mroot, pfLeaf, pfRoot>>

(* One position bit of the received proof is flipped. *)
ProofFlipBit ==
    /\ pfFrom = "receive"
    /\ \E level \in 1..pf.depth :
          /\ pf' = [pf EXCEPT !.positions[level] = 1 - @]
          /\ pfLevel' = level
    /\ pfFrom' = "bit"
    /\ pfOrig' = pf
    /\ pfOk' = "unknown"
    /\ UNCHANGED <<exceptMerkle, mrc, mleaves, mbuilt, mroot, pfLeaf, pfRoot>>

ProofVerify ==
    /\ pfFrom # "none"
    /\ pfOk = "unknown"
    /\ pfOk' = IF scribe_merkle_proof_verify(pf, pfLeaf, pfRoot) THEN "true" ELSE "false"
    /\ UNCHANGED <<exceptMerkle, mrc, mleaves, mbuilt, mroot, pf, pfLeaf, pfRoot, pfFrom,
                   pfOrig, pfLevel>>

(***************************************************************************)
(* A client of the refs table: scribe_db_set_ref and scribe_db_get_ref on  *)
(* the database handle of an open repository.  A statement may fail: a     *)
(* failed INSERT OR REPLACE changes nothing and returns SCRIBE_ERR_DB; in  *)
(* scribe_db_get_ref a failed prepare returns SCRIBE_ERR_DB and a step     *)
(* that returns anything but SQLITE_ROW returns SCRIBE_ERR_NOT_FOUND.      *)
(***************************************************************************)
RefNames == {"HEAD", "refs/heads/main"}
RefDigests == {SCRIBE_ZERO_HASH, DigestA, DigestB}
NoRefCall == [name |-> "none", fault |-> "none", err |-> "none", hash |-> SCRIBE_ZERO_HASH]

RefSet ==
    /\ repoExists
    /\ pc = "idle"
    /\ \E name \in RefNames, hash \in RefDigests, fault \in FaultChoices :
          /\ faults' = IF fault THEN faults + 1 ELSE faults
          /\ IF fault
             THEN UNCHANGED <<refs, lastWrite>>
             ELSE /\ refs' = scribe_db_set_ref(refs, name, hash)
                  /\ lastWrite' = [n \in DOMAIN lastWrite \cup {name} |->
                                      IF n = name THEN hash ELSE lastWrite[n]]
    /\ refGot' = NoRefCall
    /\ UNCHANGED <<repoExists, commits, changes, now, writerVars, historyVars, runs,
                   tampered, envVars, monVars, merkleVars, objVars, fsVars, pgVars>>

RefGetFaults == IF faults < MaxFaults THEN {"none", "prepare", "step"} ELSE {"none"}

RefGet ==
    /\ repoExists
    /\ pc = "idle"
    /\ \E name \in RefNames, fault \in RefGetFaults :
          /\ faults' = IF fault = "none" THEN faults ELSE faults + 1
          /\ refGot' =
                IF fault = "prepare"
                THEN [name |-> name, fault |-> fault, err |-> "DB", hash |-> SCRIBE_ZERO_HASH]
                ELSE IF fault = "step"
                THEN [name |-> name, fault |-> fault, err |-> "NOT_FOUND",
                      hash |-> SCRIBE_ZERO_HASH]
                ELSE [name |-> name, fault |-> fault,
                      err |-> scribe_db_get_ref(refs, name).err,
                      hash |-> scribe_db_get_ref(refs, name).hash]
    /\ UNCHANGED <<storeVars, now, writerVars, historyVars, runs, tampered, envVars,
                   monVars, merkleVars, lastWrite, objVars, fsVars,
                   pgVars>>

RefInit ==
    /\ lastWrite = <<>>
    /\ refGot = NoRefCall

(***************************************************************************)
(* The object store: files named by digest under an objects directory.     *)
(* File names are records; a file's content is a sequence of blocks.        *)
(* scribe_objects_store runs in several processes at once, each a sequence *)
(* of system calls any of which may fail; unlink is taken to succeed.      *)
(***************************************************************************)
Procs == {1, 2}
ObjDigests == {DigestA, DigestB}
ObjectBytes(hash) == IF hash = DigestA THEN <<"a1", "a2">> ELSE <<"b1">>

(* sizeof(tmp_path) in scribe_objects_store. *)
TmpPathSize == 512

(* get_object_path: objects_dir/XX/YYY..., of any length (scribe_path_join *)
(* allocates what it needs).  Two lengths are told apart: one that leaves  *)
(* room in tmp_path for the suffix, and one that fills tmp_path.           *)
get_object_path(hash) == [kind |-> "object", hash |-> hash, pid |-> 0]
PathLength == IF objLong THEN TmpPathSize - 1 ELSE TmpPathSize - 100

(* snprintf(tmp_path, sizeof(tmp_path), "%s.tmp.%d", path, getpid()): the  *)
(* first sizeof(tmp_path) - 1 bytes of the formatted text.                 *)
TmpPath(hash, pid) ==
    IF PathLength >= TmpPathSize - 1
    THEN get_object_path(hash)
    ELSE [kind |-> "tmp", hash |-> hash, pid |-> pid]

Unlink(files, name) == [f \in DOMAIN files \ {name} |-> files[f]]
WriteFile(files, name, content) ==
    [f \in DOMAIN files \cup {name} |-> IF f = name THEN content ELSE files[f]]

(* The caller picks the objects directory before anything is stored. *)
ObjChooseDir ==
    /\ DOMAIN ofiles = {}
    /\ \A p \in Procs : opc[p] = "idle" /\ orc[p] = "none"
    /\ objLong' \in BOOLEAN
    /\ UNCHANGED <<ofiles, opc, ocall, orc, ostored, exceptObj>>

(* scribe_objects_store up to the fopen: an existing path is "already      *)
(* stored".                                                                *)
ObjStoreCall(p) ==
    /\ opc[p] = "idle"
    /\ \E hash \in ObjDigests :
          /\ ocall' = [ocall EXCEPT ![p] = hash]
          /\ IF get_object_path(hash) \in DOMAIN ofiles
             THEN /\ orc' = [orc EXCEPT ![p] = "OK"]
                  /\ ostored' = ostored \cup {hash}
                  /\ UNCHANGED opc
             ELSE /\ opc' = [opc EXCEPT ![p] = "fopen"]
                  /\ orc' = [orc EXCEPT ![p] = "none"]
                  /\ UNCHANGED ostored
    /\ UNCHANGED <<objLong, ofiles, exceptObj>>

(* fopen(tmp_path, "wb"): creates the file or truncates it. *)
ObjOpen(p) ==
    /\ opc[p] = "fopen"
    /\ \E fault \in BOOLEAN :
          IF fault
          THEN /\ opc' = [opc EXCEPT ![p] = "idle"]
               /\ orc' = [orc EXCEPT ![p] = "IO"]
               /\ UNCHANGED ofiles
          ELSE /\ opc' = [opc EXCEPT ![p] = "fwrite"]
               /\ ofiles' = WriteFile(ofiles, TmpPath(ocall[p], p), <<>>)
               /\ UNCHANGED orc
    /\ UNCHANGED <<objLong, ocall, ostored, exceptObj>>

(* fwrite: a short write is followed by fclose and unlink.  A file that    *)
(* was unlinked meanwhile takes the write without getting its name back.   *)
ObjWrite(p) ==
    /\ opc[p] = "fwrite"
    /\ \E fault \in BOOLEAN :
          IF fault
          THEN /\ opc' = [opc EXCEPT ![p] = "idle"]
               /\ orc' = [orc EXCEPT ![p] = "IO"]
               /\ ofiles' = Unlink(ofiles, TmpPath(ocall[p], p))
          ELSE /\ opc' = [opc EXCEPT ![p] = "fclose"]
               /\ ofiles' = IF TmpPath(ocall[p], p) \in DOMAIN ofiles
                             THEN WriteFile(ofiles, TmpPath(ocall[p], p),
                                            ObjectBytes(ocall[p]))
                             ELSE ofiles
               /\ UNCHANGED orc
    /\ UNCHANGED <<objLong, ocall, ostored, exceptObj>>

ObjClose(p) ==
    /\ opc[p] = "fclose"
    /\ \E fault \in BOOLEAN :
          IF fault
          THEN /\ opc' = [opc EXCEPT ![p] = "idle"]
               /\ orc' = [orc EXCEPT ![p] = "IO"]
               /\ ofiles' = Unlink(ofiles, TmpPath(ocall[p], p))
          ELSE /\ opc' = [opc EXCEPT ![p] = "rename"]
               /\ UNCHANGED <<ofiles, orc>>
    /\ UNCHANGED <<objLong, ocall, ostored, exceptObj>>

(* rename(tmp_path, path): fails when tmp_path is gone, does nothing when  *)
(* both name the same file.                                                *)
ObjRename(p) ==
    /\ opc[p] = "rename"
    /\ opc' = [opc EXCEPT ![p] = "idle"]
    /\ LET tmp == TmpPath(ocall[p], p)
           path == get_object_path(ocall[p])
       IN \E fault \in BOOLEAN :
             IF fault \/ tmp \notin DOMAIN ofiles
             THEN /\ orc' = [orc EXCEPT ![p] = "IO"]
                  /\ ofiles' = Unlink(ofiles, tmp)
                  /\ UNCHANGED ostored
             ELSE /\ orc' = [orc EXCEPT ![p] = "OK"]
                  /\ ofiles' = IF tmp = path
                                THEN ofiles
                                ELSE Unlink(WriteFile(ofiles, path, ofiles[tmp]), tmp)
                  /\ ostored' = ostored \cup {ocall[p]}
    /\ UNCHANGED <<objLong, ocall, exceptObj>>

(* scribe_objects_load: every result the call can give.  malloc(0) for an  *)
(* empty file may return NULL.                                             *)
scribe_objects_load(files, hash) ==
    IF get_object_path(hash) \notin DOMAIN files
    THEN {[err |-> "OBJECT_MISSING", content |-> <<>>, size |-> 0]}
    ELSE IF files[get_object_path(hash)] = <<>>
         THEN {[err |-> "OK", content |-> <<>>, size |-> 0],
               [err |-> "NOMEM", content |-> <<>>, size |-> 0]}
         ELSE {[err |-> "OK", content |-> files[get_object_path(hash)],
                size |-> Len(files[get_object_path(hash)])]}

ObjInit ==
    /\ objLong = FALSE
    /\ ofiles = <<>>
    /\ opc = [p \in Procs |-> "idle"]
    /\ ocall = [p \in Procs |-> DigestA]
    /\ orc = [p \in Procs |-> "none"]
    /\ ostored = {}

(***************************************************************************)
(* scribe init with a path argument.  A path is the sequence of its        *)
(* components below "/"; the repository of the other sections is the one   *)
(* in WorkDir.                                                             *)
(***************************************************************************)
WorkDir == <<"w">>
InitPaths == {<<"w">>, <<"w", "sub">>, <<"w", "new">>}
ScribeDirs == (IF repoExists THEN {WorkDir} ELSE {}) \cup nested
Ancestors(path) == {SubSeq(path, 1, k) : k \in 0..Len(path)}

(* The loop of scribe_find_repo_root: it looks for current/.scribe and     *)
(* stops, without looking further, once the last '/' of current is its     *)
(* first byte.                                                             *)
RECURSIVE WalkUp(_)
WalkUp(current) ==
    IF current \in ScribeDirs
    THEN [found |-> TRUE, root |-> current]
    ELSE IF Len(current) <= 1
         THEN [found |-> FALSE, root |-> <<>>]
         ELSE WalkUp(SubSeq(current, 1, Len(current) - 1))

(* scribe_find_repo_root: realpath fails for a path that does not exist. *)
scribe_find_repo_root(start_path) ==
    IF start_path \notin fsDirs
    THEN [found |-> FALSE, root |-> <<>>]
    ELSE WalkUp(start_path)

NoInit == [path |-> <<>>, below |-> FALSE, rc |-> "none"]

(* cmd_init and scribe_repo_init: fail when scribe_find_repo_root finds a  *)
(* repository; otherwise mkdir -p path/.scribe, the schema and the config. *)
CmdInitPath ==
    /\ pc = "idle"
    /\ \E path \in InitPaths :
          LET below == \E dir \in Ancestors(path) : dir \in ScribeDirs
          IN IF scribe_find_repo_root(path).found
             THEN /\ initLast' = [path |-> path, below |-> below, rc |-> "error"]
                  /\ UNCHANGED <<repoExists, refs, fsDirs, nested>>
             ELSE /\ initLast' = [path |-> path, below |-> below, rc |-> "ok"]
                  /\ fsDirs' = fsDirs \cup Ancestors(path)
                  /\ IF path = WorkDir
                     THEN /\ repoExists' = TRUE
                          /\ refs' = SchemaRefs(refs)
                          /\ UNCHANGED nested
                     ELSE /\ nested' = nested \cup {path}
                          /\ UNCHANGED <<repoExists, refs>>
    /\ UNCHANGED <<commits, changes, now, writerVars, historyVars, faults, runs,
                   tampered, envVars, monVars, merkleVars, refVars, objVars, schemaOther,
                   pgVars>>

(* Another version of the tool rewrites config.schema_version. *)
SchemaForeign ==
    /\ repoExists
    /\ pc = "idle"
    /\ ~schemaOther
    /\ schemaOther' = TRUE
    /\ UNCHANGED <<repoVars, envVars, monVars, merkleVars, refVars, objVars, pgVars,
                   fsDirs, nested, initLast>>

FsInit ==
    /\ fsDirs = {<<>>, <<"w">>, <<"w", "sub">>}
    /\ nested = {}
    /\ initLast = NoInit
    /\ schemaOther = FALSE

(***************************************************************************)
(* The upstream connection (postgres/pg_client.c) and the poll in logical  *)
(* replication mode (postgres/pg_logical.c).  Upstream changes are         *)
(* numbered 1, 2, ... in the order they reach the replication slot.  A     *)
(* call to the server may fail any number of times.                        *)
(***************************************************************************)
(* scribe_pg_connect: an open handle is finished first; when PQconnectdb   *)
(* fails the handle is null and the state is left as it was.               *)
scribe_pg_connect(state, ok) ==
    IF ok THEN [state |-> "CONNECTED", handle |-> "open", err |-> "OK"]
    ELSE [state |-> state, handle |-> "null", err |-> "PG_CONNECT"]

PgConnect ==
    /\ lpc = "idle"
    /\ \E ok \in BOOLEAN :
          /\ pgState' = scribe_pg_connect(pgState, ok).state
          /\ pgHandle' = scribe_pg_connect(pgState, ok).handle
          /\ pgRc' = [call |-> "connect", err |-> scribe_pg_connect(pgState, ok).err]
          /\ pgError' = IF ok THEN "null" ELSE "connect"
    /\ UNCHANGED <<exceptPg, issued, slot, lpc, lconsumed, lreturned>>

(* scribe_pg_disconnect. *)
PgDisconnect ==
    /\ lpc = "idle"
    /\ pgState' = "DISCONNECTED"
    /\ pgHandle' = "null"
    /\ pgRc' = [call |-> "disconnect", err |-> "OK"]
    /\ UNCHANGED <<exceptPg, pgError, issued, slot, lpc, lconsumed, lreturned>>

(* scribe_pg_query of a statement that reads: NULL for a null handle       *)
(* (last_error untouched) and for a failed PQexec (last_error set).        *)
PgQuery ==
    /\ lpc = "idle"
    /\ \E fault \in BOOLEAN :
          IF pgHandle = "null"
          THEN /\ pgRc' = [call |-> "query", err |-> "NULL"]
               /\ UNCHANGED pgError
          ELSE IF fault
          THEN /\ pgRc' = [call |-> "query", err |-> "NULL"]
               /\ pgError' = "query"
          ELSE /\ pgRc' = [call |-> "query", err |-> "OK"]
               /\ UNCHANGED pgError
    /\ UNCHANGED <<exceptPg, pgState, pgHandle, issued, slot, lpc, lconsumed, lreturned>>

(* scribe_pg_execute of a statement without effect on the slot:            *)
(* INVALID_ARG for a null handle, and last_error cleared on success.       *)
PgExecute ==
    /\ lpc = "idle"
    /\ \E fault \in BOOLEAN :
          IF pgHandle = "null"
          THEN /\ pgRc' = [call |-> "execute", err |-> "INVALID_ARG"]
               /\ UNCHANGED pgError
          ELSE IF fault
          THEN /\ pgRc' = [call |-> "execute", err |-> "PG_QUERY"]
               /\ pgError' = "execute"
          ELSE /\ pgRc' = [call |-> "execute", err |-> "OK"]
               /\ pgError' = "null"
    /\ UNCHANGED <<exceptPg, pgState, pgHandle, issued, slot, lpc, lconsumed, lreturned>>

(* An upstream transaction commits a change of a published table. *)
SlotChange ==
    /\ issued < MaxAudit
    /\ issued' = issued + 1
    /\ slot' = Append(slot, issued + 1)
    /\ UNCHANGED <<exceptPg, pgState, pgHandle, pgRc, pgError, lpc, lconsumed, lreturned>>

(* The first n changes of the slot: upto_nchanges. *)
SlotFirst(pending, n) == SubSeq(pending, 1, IF Len(pending) < n THEN Len(pending) ELSE n)
SlotRest(pending, n) == SubSeq(pending, (IF Len(pending) < n THEN Len(pending) ELSE n) + 1,
                               Len(pending))

(* scribe_pg_monitor_poll in logical mode up to the result of              *)
(* pg_logical_slot_peek_changes: the connect of a connection whose state   *)
(* is not CONNECTED, then scribe_pg_query, which returns NULL for a null   *)
(* handle or a failed query and "[]" for no rows.                          *)
LogicalPeek ==
    /\ lpc = "idle"
    /\ \E ok \in BOOLEAN, fault \in BOOLEAN :
          LET conn == IF pgState # "CONNECTED"
                      THEN scribe_pg_connect(pgState, ok)
                      ELSE [state |-> pgState, handle |-> pgHandle, err |-> "OK"]
              error == IF pgState = "CONNECTED" THEN pgError
                       ELSE IF ok THEN "null" ELSE "connect"
          IN /\ pgState' = conn.state
             /\ pgHandle' = conn.handle
             /\ IF conn.err # "OK"
                THEN /\ pgRc' = [call |-> "poll", err |-> conn.err]
                     /\ pgError' = error
                     /\ UNCHANGED lpc
                ELSE IF conn.handle = "null"
                THEN /\ pgRc' = [call |-> "poll", err |-> "PG_QUERY"]
                     /\ pgError' = error
                     /\ UNCHANGED lpc
                ELSE IF fault
                THEN /\ pgRc' = [call |-> "poll", err |-> "PG_QUERY"]
                     /\ pgError' = "query"
                     /\ UNCHANGED lpc
                ELSE IF slot = <<>>
                THEN /\ pgRc' = [call |-> "poll", err |-> "OK"]
                     /\ pgError' = error
                     /\ UNCHANGED lpc
                ELSE /\ lpc' = "advance"
                     /\ pgError' = error
                     /\ UNCHANGED pgRc
    /\ UNCHANGED <<exceptPg, issued, slot, lconsumed, lreturned>>

(* The rest of scribe_pg_logical_get_changes: pg_logical_slot_get_changes  *)
(* through scribe_pg_execute, whose result is not looked at; out_changes   *)
(* and out_count stay as they were set at the start, null and 0.           *)
LogicalAdvance ==
    /\ lpc = "advance"
    /\ lpc' = "idle"
    /\ \E fault \in BOOLEAN :
          IF fault
          THEN /\ pgError' = "execute"
               /\ UNCHANGED <<slot, lconsumed>>
          ELSE /\ pgError' = "null"
               /\ slot' = SlotRest(slot, PollLimit)
               /\ lconsumed' = lconsumed \cup Range(SlotFirst(slot, PollLimit))
    /\ lreturned' = lreturned \cup Range(<<>>)
    /\ pgRc' = [call |-> "poll", err |-> "OK"]
    /\ UNCHANGED <<exceptPg, pgState, pgHandle, issued>>

(* scribe_pg_conn_new. *)
PgInit ==
    /\ pgState = "DISCONNECTED"
    /\ pgHandle = "null"
    /\ pgRc = [call |-> "none", err |-> "OK"]
    /\ pgError = "null"
    /\ issued = 0
    /\ slot = <<>>
    /\ lpc = "idle"
    /\ lconsumed = {}
    /\ lreturned = {}

(* scribe_merkle_tree_new. *)
MerkleInit ==
    /\ mleaves = <<>>
    /\ mbuilt = FALSE
    /\ mroot = NullHash
    /\ pf = NullProof
    /\ pfLeaf = NullHash
    /\ pfRoot = NullHash
    /\ pfFrom = "none"
    /\ pfOrig = NullProof
    /\ pfLevel = NoLevel
    /\ pfOk = "unknown"
    /\ mrc = [call |-> "none", err |-> "OK"]

LibInit == MerkleInit /\ RefInit /\ ObjInit /\ FsInit /\ PgInit

MonInit ==
    /\ audit = <<>>
    /\ mpc = "stopped"
    /\ running = FALSE
    /\ connected = FALSE
    /\ selected = <<>>
    /\ batch = 0
    /\ bi = 1
    /\ batchHead = 0
    /\ returned = {}
    /\ handled = {}
    /\ stopAt = [requested |-> FALSE, mpc |-> "stopped", bi |-> 1]
    /\ lastPollErr = "none"
    /\ startRc = "none"
    /\ pollFailed = FALSE

RepoInit ==
    /\ repoExists = FALSE
    /\ commits = {}
    /\ changes = <<>>
    /\ refs = <<>>
    /\ now = 1
    /\ pc = "idle"
    /\ cmd = "commit"
    /\ wenv = scribe_envelope_new(1)
    /\ wi = 1
    /\ pre = [commits |-> {}, changes |-> <<>>, refs |-> <<>>]
    /\ failed = FALSE
    /\ result = "none"
    /\ storeRc = "none"
    /\ insertRc = "none"
    /\ headLog = <<>>
    /\ storedLog = <<>>
    /\ faults = 0
    /\ runs = 0
    /\ tampered = NoTamper

Init == RepoInit /\ EnvInit /\ MonInit /\ LibInit

Next ==
    \/ CmdInit
    \/ Tick
    \/ CmdCommitStart
    \/ OnChangeStart
    \/ StoreCommitRow
    \/ StoreChangeRow
    \/ SetHead

Spec == Init /\ [][Next]_vars

SpecEnvelope == Init /\ [][EnvNext]_vars

(* The daemon's steps, the callback's statements included. *)
WatchSteps ==
    \/ MonitorStart
    \/ MonitorTest
    \/ PollSelect
    \/ PollMark
    \/ Deliver
    \/ StoreCommitRow
    \/ StoreChangeRow
    \/ SetHead
    \/ MonitorSleep
    \/ MonitorReconnect

WatchNext ==
    \/ CmdInit
    \/ UpstreamInsert
    \/ StopRequest
    \/ WatchSteps

SpecWatch == Init /\ [][WatchNext]_vars

(* The daemon's process is scheduled: sleeps end, calls return. *)
SpecWatchFair == Init /\ [][WatchNext]_vars /\ WF_vars(WatchSteps)

(* cmd_watch with the time between the installation of the signal         *)
(* handlers and the start of the loop.                                     *)
StartSteps ==
    \/ MonitorSetup
    \/ MonitorRun
    \/ MonitorTest
    \/ PollSelect
    \/ PollMark
    \/ Deliver
    \/ StoreCommitRow
    \/ StoreChangeRow
    \/ SetHead
    \/ MonitorSleep
    \/ MonitorReconnect

StartNext ==
    \/ CmdInit
    \/ UpstreamInsert
    \/ StopRequest
    \/ StartSteps

SpecStartFair == Init /\ [][StartNext]_vars /\ WF_vars(StartSteps)

MerkleNext ==
    \/ MerkleAddHash
    \/ MerkleAddField
    \/ MerkleBuild
    \/ MerkleProofCreate
    \/ ProofVerify

SpecMerkle == Init /\ [][MerkleNext]_vars

ProofNext ==
    \/ ProofReceive
    \/ ProofAlterSibling
    \/ ProofFlipBit
    \/ ProofVerify

SpecProof == Init /\ [][ProofNext]_vars

RefNext ==
    \/ CmdInit
    \/ RefSet
    \/ RefGet

SpecRefs == Init /\ [][RefNext]_vars

ObjNext ==
    \/ ObjChooseDir
    \/ \E p \in Procs : ObjStoreCall(p)
    \/ \E p \in Procs : ObjOpen(p)
    \/ \E p \in Procs : ObjWrite(p)
    \/ \E p \in Procs : ObjClose(p)
    \/ \E p \in Procs : ObjRename(p)

SpecObjects == Init /\ [][ObjNext]_vars

RepoNext ==
    \/ CmdInitPath
    \/ SchemaForeign
    \/ CmdCommitStart
    \/ StoreCommitRow
    \/ StoreChangeRow
    \/ SetHead

SpecRepo == Init /\ [][RepoNext]_vars

LogicalNext ==
    \/ PgConnect
    \/ PgDisconnect
    \/ PgQuery
    \/ PgExecute
    \/ SlotChange
    \/ LogicalPeek
    \/ LogicalAdvance

SpecLogical == Init /\ [][LogicalNext]_vars

(***************************************************************************)
(* A direct modification of the store (an UPDATE run on scribe.db by       *)
(* another program): one column of a commit row or of one of its change    *)
(* rows, among those scribe_db_load_commit reads into fields that          *)
(* scribe_envelope_to_json writes, gets a different value the schema       *)
(* admits.  One such modification happens, to the commit the last writer   *)
(* run stored.                                                             *)
(***************************************************************************)
TextColumns ==
    {"author_id", "author_role", "author_email", "process_name", "process_version",
     "process_params", "process_source", "message"}

TextValues == {NULL, "tampered"}

(* Other contents for a digest column holding old: SQL NULL, the empty     *)
(* text, a text that is not 64 hex digits, the same hex in upper case      *)
(* (the hex of a SHA-256 digest has letters, 64 zeros have none), the hex  *)
(* of the zero digest and the hex of another digest.                       *)
DigestTexts(old) ==
    {NullText, EmptyText, MalformedText, scribe_hash_to_hex(SCRIBE_ZERO_HASH),
     scribe_hash_to_hex(DigestB)}
    \cup (IF old.form = "lower" /\ ~scribe_hash_is_zero(old.digest)
          THEN {UpperHex(old.digest)} ELSE {})

TamperedCommitRows(r) ==
    LET texts == {[r EXCEPT ![f] = v] : f \in TextColumns, v \in TextValues}
        digests == {[r EXCEPT ![f] = v] :
                        f \in {"parent_hash"}, v \in DigestTexts(r.parent_hash)}
                   \cup {[r EXCEPT ![f] = v] :
                            f \in {"tree_hash"}, v \in DigestTexts(r.tree_hash) \ {NullText}}
        times == {[r EXCEPT !.timestamp = r.timestamp + 1]}
    IN {x \in texts \cup digests \cup times :
           /\ x # r
           /\ x.author_id # NULL
           /\ x.process_name # NULL}

TamperedChangeRows(r) ==
    LET texts == {[r EXCEPT ![f] = v] :
                     f \in {"table_name", "primary_key"}, v \in {"tampered"}}
        operations == {[r EXCEPT !.operation = v] : v \in ValidOperations}
        digests == {[r EXCEPT ![f] = v] :
                        f \in {"before_hash"}, v \in DigestTexts(r.before_hash)}
                   \cup {[r EXCEPT ![f] = v] :
                            f \in {"after_hash"}, v \in DigestTexts(r.after_hash)}
    IN {x \in texts \cup operations \cup digests : x # r}

(* The row of the commit the last writer run stored. *)
StoredRows == {r \in commits : storeRc = "OK" /\ r.hash = scribe_hash_to_hex(wenv.commit_id)}

TamperCommitRow ==
    /\ pc = "idle"
    /\ tampered = NoTamper
    /\ \E r \in StoredRows :
          /\ \E x \in TamperedCommitRows(r) : commits' = (commits \ {r}) \cup {x}
          /\ tampered' = r.hash.digest
    /\ UNCHANGED <<repoExists, changes, refs, now, writerVars, historyVars, faults,
                   runs, envVars, libVars, monVars>>

TamperChangeRow ==
    /\ pc = "idle"
    /\ tampered = NoTamper
    /\ \E r \in StoredRows, j \in 1..Len(changes) :
          /\ changes[j].commit_hash = r.hash
          /\ \E x \in TamperedChangeRows(changes[j]) :
                changes' = [changes EXCEPT ![j] = x]
          /\ tampered' = r.hash.digest
    /\ UNCHANGED <<repoExists, commits, refs, now, writerVars, historyVars, faults,
                   runs, envVars, libVars, monVars>>

(* The repository until the modification: the store is then looked at as   *)
(* the modification leaves it.                                             *)
Untampered == tampered = NoTamper /\ Next

TamperNext ==
    \/ Untampered
    \/ TamperCommitRow
    \/ TamperChangeRow

SpecTamper == Init /\ [][TamperNext]_vars

(***************************************************************************)
(* Properties of the writer pipeline.                                      *)
(***************************************************************************)
Reverse(seq) == [i \in 1..Len(seq) |-> seq[Len(seq) + 1 - i]]

HeadHash == scribe_repo_get_head.hash

(* C1: whenever scribe_repo_store_commit has returned OK, the envelope is  *)
(* finalized, its commit is in the commit store and HEAD equals its        *)
(* commit_id: no state after a successful store_commit has the commit      *)
(* stored while HEAD still names the previous commit.                      *)
C1_StoreCommitAdvancesHead ==
    storeRc = "OK" =>
        /\ scribe_envelope_verify(wenv) = "OK"
        /\ scribe_db_commit_exists(commits, wenv.commit_id)
        /\ HeadHash = wenv.commit_id

(* C2: when a step of the commit command's pipeline has failed (the commit *)
(* row, a change row, or the HEAD update), the command reports an error,   *)
(* and after a reported error the commits table, the changes table and     *)
(* HEAD are what they were before the command.                             *)
C2_FailureRollsBack ==
    (pc = "idle" /\ cmd = "commit") =>
        /\ failed => result = "error"
        /\ result = "error" => Snapshot = pre

(* C3: between writer runs, the verify command reports OK for every commit *)
(* reachable from HEAD and exits 0.                                        *)
C3_VerifyReportsAllOk ==
    pc = "idle" =>
        LET report == cmd_verify(commits, changes, refs)
        IN /\ report.exit = 0
           /\ \A i \in 1..Len(report.lines) : report.lines[i] = "OK"

(* C4: between writer runs, the i-th commit store_commit returned OK for   *)
(* has the (i-1)-th as its parent (zero for the first), and every such     *)
(* commit is reachable from HEAD by parent links.                          *)
C4_StoreOrderIsParentChain ==
    pc = "idle" =>
        /\ \A i \in 1..Len(storedLog) :
              ParentOf(commits, storedLog[i]) =
                  IF i = 1 THEN SCRIBE_ZERO_HASH ELSE storedLog[i - 1]
        /\ Range(storedLog) \subseteq
              Range(scribe_db_get_history(commits, refs, HeadHash, VerifyHistoryLimit).hashes)

(* C5: when k >= 1 commits were stored and made HEAD one after the other,  *)
(* each with the previous one as its parent, get_history(HEAD, k) is the k *)
(* ids newest first, and get_history(HEAD, k + 1) is the same list.        *)
ChainBuilt ==
    /\ pc = "idle"
    /\ Len(headLog) >= 1
    /\ storedLog = headLog
    /\ \A i \in 1..Len(headLog) :
          ParentOf(commits, headLog[i]) =
              IF i = 1 THEN SCRIBE_ZERO_HASH ELSE headLog[i - 1]

C5_HistoryIsReverseCreationOrder ==
    ChainBuilt =>
        LET k == Len(headLog)
        IN /\ scribe_db_get_history(commits, refs, HeadHash, k)
                 = [ok |-> TRUE, hashes |-> Reverse(headLog)]
           /\ scribe_db_get_history(commits, refs, HeadHash, k + 1)
                 = [ok |-> TRUE, hashes |-> Reverse(headLog)]

C5_Witness == ChainBuilt /\ Len(headLog) >= 2

(* C6: a store_commit of an envelope whose commit_id is already in the     *)
(* commits table returns an error, leaves the commit rows, the change rows *)
(* and HEAD as they are, and the writer does not go on to set HEAD.        *)
C6_SecondStoreFails ==
    [][(pc = "store_commit" /\ scribe_db_commit_exists(commits, wenv.commit_id)) =>
           /\ storeRc' = "DB"
           /\ pc' = "idle"
           /\ result' # "ok"
           /\ commits' = commits
           /\ changes' = changes
           /\ refs' = refs
           /\ headLog' = headLog]_vars

C6_Witness ==
    /\ insertRc = "CONSTRAINT"
    /\ storeRc = "DB"
    /\ wenv.commit_id \in Range(storedLog)
    /\ CommitRow(wenv) \in commits

(* C7: once a column of a stored commit or of one of its change rows has   *)
(* been given a different value, scribe_envelope_verify on the loaded      *)
(* commit is HASH_MISMATCH and the verify command's line for the commit is *)
(* FAILED (hash mismatch).                                                 *)
C7_TamperIsDetected ==
    tampered # NoTamper =>
        /\ scribe_db_load_commit(commits, changes, tampered).found
        /\ scribe_envelope_verify(scribe_db_load_commit(commits, changes, tampered).env)
              = "HASH_MISMATCH"
        /\ verify_commit(commits, changes, tampered) = "FAILED (hash mismatch)"

C9_TreeHashFollowsChanges ==
    (Eop = "finalize" /\ ~Eoverride) =>
        E.tree_hash = scribe_merkle_build(TreeLeaves(E.changes))

(* C10: between writer runs of an initialized repository, HEAD is the zero *)
(* digest exactly when the commits table is empty.                         *)
C10_HeadZeroIffNoCommits ==
    (repoExists /\ pc = "idle") =>
        (scribe_hash_is_zero(HeadHash) <=> commits = {})

(* The rows of the changes table that reference a commit. *)
ChangeRowsOf(hash) ==
    SelectSeq(changes, LAMBDA row : row.commit_hash = scribe_hash_to_hex(hash))

(* C11: whenever scribe_repo_store_commit has returned OK for an envelope, *)
(* the store holds its commit row and one change row per change of the     *)
(* envelope.                                                               *)
C11_StoredCommitHasAllChangeRows ==
    storeRc = "OK" =>
        /\ scribe_db_commit_exists(commits, wenv.commit_id)
        /\ Len(ChangeRowsOf(wenv.commit_id)) = Len(wenv.changes)

(* C12: whenever scribe_repo_store_commit has returned OK for a finalized  *)
(* envelope, scribe_db_load_commit of its commit_id returns an envelope    *)
(* equal to it in every field, changes in order; and scribe_db_load_commit *)
(* of an id without a commit row returns null.                             *)
C12_LoadReturnsStoredEnvelope ==
    /\ storeRc = "OK" =>
          scribe_db_load_commit(commits, changes, wenv.commit_id)
              = [found |-> TRUE, env |-> wenv]
    /\ \A hash \in {DigestA, wenv.commit_id} :
          ~scribe_db_commit_exists(commits, hash) =>
              ~scribe_db_load_commit(commits, changes, hash).found

(* C13: every row of the changes table satisfies the change invariants:    *)
(* an UPDATE has both digests, an INSERT has no before digest, a DELETE    *)
(* has no after digest.                                                    *)
C13_StoredChangesSatisfyInvariants ==
    \A j \in 1..Len(changes) :
        /\ changes[j].operation = "UPDATE" =>
              changes[j].before_hash # NullText /\ changes[j].after_hash # NullText
        /\ changes[j].operation = "INSERT" => changes[j].before_hash = NullText
        /\ changes[j].operation = "DELETE" => changes[j].after_hash = NullText

(* C14: in every state of the store (each is a committed state a reader in *)
(* another process can see), the commit the writer is storing or has       *)
(* stored loads with all of its changes or not at all, and the commit HEAD *)
(* names is in the store.                                                  *)
C14_ReadersSeeWholeCommits ==
    /\ (pc # "idle" \/ storeRc = "OK") =>
          LET loaded == scribe_db_load_commit(commits, changes, wenv.commit_id)
          IN loaded.found => Len(loaded.env.changes) = Len(wenv.changes)
    /\ ~scribe_hash_is_zero(HeadHash) =>
          scribe_db_load_commit(commits, changes, HeadHash).found

(* C15: every scribe_audit row that is marked processed has been returned   *)
(* by a poll (the poll marks exactly the rows it returns).                  *)
C15_MarkedRowsWereReturned ==
    \A id \in 1..Len(audit) : audit[id] => id \in returned

(* C16: a scribe_audit row is marked processed only after a commit for its  *)
(* change has been stored.                                                  *)
C16_MarkedOnlyAfterCommitStored ==
    \A id \in 1..Len(audit) : audit[id] => id \in handled

(* C17: when the loop has delivered a batch of n changes, HEAD has advanced *)
(* n times since the poll, each time to a commit whose parent is the        *)
(* previous HEAD and which holds exactly one change.                        *)
C17_BatchGrowsHeadChain ==
    mpc = "sleep" =>
        /\ Len(headLog) = batchHead + batch
        /\ \A k \in (batchHead + 1)..Len(headLog) :
              /\ scribe_db_commit_exists(commits, headLog[k])
              /\ ParentOf(commits, headLog[k]) =
                     IF k = 1 THEN SCRIBE_ZERO_HASH ELSE headLog[k - 1]
              /\ Len(ChangeRowsOf(headLog[k])) = 1

(* C18: once stop has been requested on a running loop, the loop leaves a   *)
(* batch only when every change of it has been delivered, it begins no      *)
(* further poll, and scribe_pg_monitor_start eventually returns OK.         *)
C18_StopFinishesBatchThenReturns ==
    /\ [][(mpc = "deliver" /\ mpc' # "deliver") => (bi > batch /\ pc = "idle")]_vars
    /\ [][(stopAt.requested /\ mpc # "select") => mpc' # "select"]_vars
    /\ stopAt.requested ~> (mpc = "returned" /\ startRc = "OK")

(* Stop was requested while a change of the batch was still undelivered,    *)
(* and scribe_pg_monitor_start has returned.                                *)
C18_Witness ==
    /\ mpc = "returned"
    /\ startRc = "OK"
    /\ stopAt.requested
    /\ stopAt.mpc = "deliver"
    /\ stopAt.bi <= batch
    /\ bi = batch + 1

(* C19: a poll that returns an error sends the loop to disconnect, back     *)
(* off, reconnect and test the flag again, however many polls have failed;  *)
(* scribe_pg_monitor_start returns only after stop has been requested.      *)
C19_PollErrorNeverEndsLoop ==
    /\ [](mpc = "returned" => stopAt.requested)
    /\ [][(mpc = "select" /\ lastPollErr' # "none") =>
              (mpc' = "reconnect" /\ startRc' = startRc)]_vars
    /\ [][mpc = "reconnect" => mpc' \in {"reconnect", "test"}]_vars

(* After a failed poll and without a stop request, a later poll has         *)
(* returned a batch.                                                        *)
C19_Witness ==
    /\ pollFailed
    /\ ~stopAt.requested
    /\ mpc = "deliver"
    /\ batch > 0

(* C20: a poll whose query fails and a callback whose store_commit fails    *)
(* end scribe_pg_monitor_start with that error.                             *)
C20_OtherErrorsAreSurfaced ==
    /\ lastPollErr = "query" =>
          (mpc = "returned" /\ startRc = "SCRIBE_ERR_PG_QUERY")
    /\ (cmd = "watch" /\ pc = "idle" /\ failed) =>
          (mpc = "returned" /\ startRc \notin {"none", "OK"})

(* C21: the proof scribe_merkle_proof_create makes for a leaf of a built   *)
(* tree verifies against that leaf's hash and the tree's root.             *)
C21_CreatedProofVerifies ==
    (pfFrom = "create" /\ pfOk # "unknown") => pfOk = "true"

(* The running digest of a proof's verification below a level, and whether *)
(* the sibling at that level is that digest itself.                        *)
SelfPaired(proof, leaf_hash, level) ==
    proof.hashes[level] = ProofFold(proof, leaf_hash, level - 1)

(* C22 as stated: a proof that verifies no longer verifies once any one    *)
(* sibling digest is replaced or any one position bit is flipped.          *)
C22_AnyAlterationFalsifies ==
    (/\ pfFrom \in {"sibling", "bit"}
     /\ pfOk # "unknown"
     /\ scribe_merkle_proof_verify(pfOrig, pfLeaf, pfRoot)) => pfOk = "false"

(* C22 amended: a proof that verifies no longer verifies once one sibling  *)
(* digest is replaced, or once the position bit of a level is flipped      *)
(* whose sibling differs from the running digest; flipping the bit of a    *)
(* level where the node is paired with itself leaves the proof verifying.  *)
C22_AlterationFalsifiesUnlessSelfPaired ==
    (/\ pfFrom \in {"sibling", "bit"}
     /\ pfOk # "unknown"
     /\ scribe_merkle_proof_verify(pfOrig, pfLeaf, pfRoot)) =>
        (pfOk = "true" <=> (pfFrom = "bit" /\ SelfPaired(pfOrig, pfLeaf, pfLevel)))

(* The position bit of the upper level of a verifying two-level proof was  *)
(* flipped, the sibling there differing from the running digest, and the   *)
(* altered proof was checked.                                              *)
C22_Witness ==
    /\ pfFrom = "bit"
    /\ pfOk = "false"
    /\ pfLevel = 2
    /\ scribe_merkle_proof_verify(pfOrig, pfLeaf, pfRoot)
    /\ ~SelfPaired(pfOrig, pfLeaf, pfLevel)

(* The root the pairing rule gives, written out for each leaf count. *)
PairedRoot(h) ==
    LET I(x, y) == scribe_hash_combine(x, y)
        n == Len(h)
    IN IF n = 0 THEN SCRIBE_ZERO_HASH
       ELSE IF n = 1 THEN h[1]
       ELSE IF n = 2 THEN I(h[1], h[2])
       ELSE IF n = 3 THEN I(I(h[1], h[2]), I(h[3], h[3]))
       ELSE IF n = 4 THEN I(I(h[1], h[2]), I(h[3], h[4]))
       ELSE IF n = 5 THEN I(I(I(h[1], h[2]), I(h[3], h[4])),
                            I(I(h[5], h[5]), I(h[5], h[5])))
       ELSE IF n = 6 THEN I(I(I(h[1], h[2]), I(h[3], h[4])),
                            I(I(h[5], h[6]), I(h[5], h[6])))
       ELSE NullHash

(* C23: the root of a built tree is the zero digest without leaves, the    *)
(* leaf's hash for one leaf, and otherwise what pairing adjacent nodes     *)
(* level by level gives, the last node of an odd level paired with itself. *)
C23_RootFollowsPairingRule ==
    (mbuilt /\ Len(mleaves) <= 6) => mroot = PairedRoot(mleaves)

(* A tree of five different leaves, odd on two levels, is built. *)
C23_Witness ==
    /\ mbuilt
    /\ Len(mleaves) = 5
    /\ Cardinality(Range(mleaves)) = 5

(* C24: finalize of an envelope with the changes [A, B] and [C, D] sets    *)
(* tree_hash to the root over the leaves hash_leaf(A), hash_leaf(B),       *)
(* hash_leaf(C), hash_leaf(D).                                             *)
C24_TreeHashOverLeafHashes ==
    (/\ Eop = "finalize"
     /\ scribe_hash_is_zero(Eprev.tree_hash)
     /\ Len(E.changes) = 2
     /\ E.changes[1].before_hash = DigestA /\ E.changes[1].after_hash = DigestB
     /\ E.changes[2].before_hash = DigestC /\ E.changes[2].after_hash = DigestD) =>
        E.tree_hash =
            scribe_hash_combine(
                scribe_hash_combine(scribe_hash_leaf(DigestA), scribe_hash_leaf(DigestB)),
                scribe_hash_combine(scribe_hash_leaf(DigestC), scribe_hash_leaf(DigestD)))

(* C30: finalize of an envelope without author id, author role or process  *)
(* name leaves commit_id as it was.                                        *)
C30_FinalizeRejectsMissingFields ==
    (/\ Eop = "finalize"
     /\ (Eprev.author.id = NULL \/ Eprev.author.role = NULL \/ Eprev.process.name = NULL)) =>
        E.commit_id = Eprev.commit_id


C25_LoadReturnsStoredBytes ==
    \A hash \in ostored :
        scribe_objects_load(ofiles, hash) =
            {[err |-> "OK", content |-> ObjectBytes(hash), size |-> Len(ObjectBytes(hash))]}

(***************************************************************************)
(* C26.  The final path of an object is absent or holds the complete       *)
(* content of a write, and a store that returned an error has left no      *)
(* temporary file of its own behind.                                       *)
(***************************************************************************)
C26_FinalPathAbsentOrComplete ==
    /\ \A hash \in ObjDigests :
          get_object_path(hash) \in DOMAIN ofiles =>
              ofiles[get_object_path(hash)] = ObjectBytes(hash)
    /\ \A p \in Procs :
          (opc[p] = "idle" /\ orc[p] = "IO") =>
              [kind |-> "tmp", hash |-> ocall[p], pid |-> p] \notin DOMAIN ofiles


(***************************************************************************)
(* C28.  A scribe init on a path at or below a directory that holds a      *)
(* repository fails, and leaves the commits, the refs, the config and the  *)
(* directories as they were.                                               *)
(***************************************************************************)
C28_ReinitFailsAndChangesNothing ==
    [][(initLast' # initLast /\ initLast'.below) =>
          /\ initLast'.rc = "error"
          /\ UNCHANGED <<storeVars, fsDirs, nested, schemaOther>>]_vars

(***************************************************************************)
(* C29.  On a repository whose schema_version is not '1' no command gets   *)
(* past opening it: the writer stays idle and the store is not changed.    *)
(***************************************************************************)
C29_OtherSchemaVersionRejected ==
    [][schemaOther => UNCHANGED <<storeVars, pc>>]_vars


(***************************************************************************)
(* C31.  The commits table holds one row per commit id, and a commit for   *)
(* which scribe_db_store_commit has returned OK is loaded as the same      *)
(* envelope before and after every step of the engine.                     *)
(***************************************************************************)
C31_StoredCommitsNeverChange ==
    [][/\ \A r1, r2 \in commits' : r1.hash = r2.hash => r1 = r2
       /\ \A i \in 1..Len(storedLog) :
             /\ scribe_db_load_commit(commits, changes, storedLog[i]).found
             /\ scribe_db_load_commit(commits', changes', storedLog[i])
                  = scribe_db_load_commit(commits, changes, storedLog[i])]_vars

(* Two commits with a change row each were stored one after the other.    *)
C31_Witness ==
    /\ Len(storedLog) = 2
    /\ storedLog[1] # storedLog[2]
    /\ \A i \in 1..2 :
          Len(scribe_db_load_commit(commits, changes, storedLog[i]).env.changes) = 1
    /\ pc = "idle"


(***************************************************************************)
(* C32.  For every start (a stored commit, or none) and every limit, a     *)
(* list returned by scribe_db_get_history has at most limit ids (100 for   *)
(* limit 0), begins with the start commit (HEAD when none is given), and   *)
(* each further id is the parent_id of the commit before it; the list is   *)
(* cut short only where the parent is zero.                                *)
(***************************************************************************)
C32_HistoryFollowsParents ==
    \* loaded and history are bound by \A to be evaluated once per state
    \A loaded \in {[hash \in Range(storedLog) |->
                      scribe_db_load_commit(commits, changes, hash).env.parent_id]} :
    \A from \in {SCRIBE_ZERO_HASH} \cup Range(storedLog), limit \in 0..2 :
    \A history \in {scribe_db_get_history(commits, refs, from, limit)} :
        LET list == history.hashes
            most == IF limit = 0 THEN 100 ELSE limit
            parent(hash) ==
                IF hash \in DOMAIN loaded THEN loaded[hash]
                ELSE scribe_db_load_commit(commits, changes, hash).env.parent_id
        IN history.ok =>
             /\ Len(list) >= 1
             /\ Len(list) <= most
             /\ list[1] = IF scribe_hash_is_zero(from) THEN HeadHash ELSE from
             /\ \A i \in 2..Len(list) : list[i] = parent(list[i - 1])
             /\ Len(list) < most => scribe_hash_is_zero(parent(list[Len(list)]))

(* HEAD has a parent: the walk from HEAD has two ids, is cut to one by     *)
(* limit 1, and the walk from the first commit has one id.                 *)
C32_Witness ==
    /\ Len(storedLog) = 2
    /\ scribe_db_get_history(commits, refs, SCRIBE_ZERO_HASH, 0).hashes
          = <<storedLog[2], storedLog[1]>>
    /\ scribe_db_get_history(commits, refs, SCRIBE_ZERO_HASH, 1).hashes = <<storedLog[2]>>
    /\ scribe_db_get_history(commits, refs, storedLog[1], 0).hashes = <<storedLog[1]>>


(***************************************************************************)
(* C33.  On a built tree every step leaves the leaves and the root as they *)
(* are; a call of scribe_merkle_add_field or scribe_merkle_add_hash        *)
(* returns INVALID_ARG and a call of scribe_merkle_build returns OK.       *)
(***************************************************************************)
C33_BuiltTreeIsClosed ==
    [][mbuilt =>
         /\ mbuilt'
         /\ mleaves' = mleaves
         /\ mroot' = mroot
         /\ (mrc' # mrc /\ mrc'.call \in {"add_field", "add_hash"}) =>
                mrc'.err = "INVALID_ARG"
         /\ (mrc' # mrc /\ mrc'.call = "build") => mrc'.err = "OK"]_vars

(* A tree of three leaves was built and scribe_merkle_add_hash called. *)
C33_Witness ==
    /\ mbuilt
    /\ Len(mleaves) = 3
    /\ mroot = scribe_merkle_build(mleaves)
    /\ mrc = [call |-> "add_hash", err |-> "INVALID_ARG"]


(***************************************************************************)
(* C34.  HEAD is zero or names a row of commits; the parent of every row   *)
(* of commits is null or names a row of commits; and the walk along the    *)
(* parents from any commit meets no commit twice and ends at a commit      *)
(* without parent.                                                         *)
(***************************************************************************)
C34_HeadAndParentsAreStored ==
    \* ids, loaded and chain are bound by \A to be evaluated once per state
    \A ids \in {{scribe_hash_from_hex(r.hash, SCRIBE_ZERO_HASH).hash : r \in commits}} :
    \A loaded \in {[hash \in ids |->
                      scribe_db_load_commit(commits, changes, hash).env.parent_id]} :
       /\ scribe_hash_is_zero(HeadHash) \/ HeadHash \in ids
       /\ \A hash \in ids : scribe_hash_is_zero(loaded[hash]) \/ loaded[hash] \in ids
       /\ \A hash \in ids :
             \A chain \in {HistoryWalk(commits, hash, <<>>, Cardinality(ids) + 1)} :
                /\ Len(chain) <= Cardinality(ids)
                /\ \A i, j \in 1..Len(chain) : chain[i] = chain[j] => i = j
                /\ scribe_hash_is_zero(loaded[chain[Len(chain)]])

(* HEAD is the second of two commits, the child of the first, and one      *)
(* statement of the writers has failed.                                    *)
C34_Witness ==
    /\ Len(headLog) = 2
    /\ Cardinality(commits) = 2
    /\ HeadHash = headLog[2]
    /\ scribe_db_load_commit(commits, changes, HeadHash).env.parent_id = headLog[1]
    /\ faults = 1


(***************************************************************************)
(* C35.  Every id in a list returned by scribe_db_get_history, for a walk  *)
(* from HEAD, from a stored commit or from a digest that names no commit,  *)
(* names a row of commits.                                                 *)
(***************************************************************************)
C35_HistoryIdsAreStored ==
    repoExists =>
        \A from \in {SCRIBE_ZERO_HASH, DigestA} \cup Range(storedLog) :
            LET history == scribe_db_get_history(commits, refs, from, 0)
            IN history.ok =>
                 \A i \in 1..Len(history.hashes) :
                     scribe_db_commit_exists(commits, history.hashes[i])


(***************************************************************************)
(* C36.  In logical mode every change the slot was advanced past has been  *)
(* returned by a poll to its caller.                                       *)
(***************************************************************************)
C36_ConsumedChangesAreReturned == lconsumed \subseteq lreturned

(***************************************************************************)
(* C39.  The state of the upstream connection is CONNECTED exactly when    *)
(* its handle is not null.                                                 *)
(***************************************************************************)
C39_ConnectedIffHandle == (pgState = "CONNECTED") <=> (pgHandle # "null")


(***************************************************************************)
(* C37.  Once stop has been requested, at any time after the signal        *)
(* handlers were installed, scribe_pg_monitor_start returns.               *)
(***************************************************************************)
C37_StopIsNeverLost == stopAt.requested ~> (mpc = "returned")

(* C38: between writer runs, when the verify command started at a stored   *)
(* commit exits 0, every commit reachable from that commit by parent links *)
(* is among the commits it examined.                                       *)
ReachableFrom(cm, start) ==
    LET walk == HistoryWalk(cm, start, <<>>, Cardinality(cm) + 1)
    IN {walk[i] : i \in 1..Len(walk)}

C38_SuccessCoversTheChain ==
    (repoExists /\ pc = "idle") =>
        \A start \in {storedLog[i] : i \in 1..Len(storedLog)} :
            LET report == cmd_verify_from(commits, changes, refs, start, VerifyWalkBound)
            IN report.exit = 0 =>
                  ReachableFrom(commits, start) \subseteq report.examined

=============================================================================
